---------------------------- MODULE Spec2Model ----------------------------
(***************************************************************************)
(* Model of the item-model conversion engine of converter.py.              *)
(*                                                                         *)
(* Strings that the code inspects (model paths, texture paths, file paths) *)
(* are sequences of tokens, so that startswith, "in", split and basename   *)
(* are computed and not assumed: "minecraft:item/bow" is                   *)
(* <<"minecraft", ":", "item", "/", "bow">> and "crossbow" is              *)
(* <<"cross", "bow">>.  The empty sequence is the empty string; Python's   *)
(* None is modelled by the empty sequence too wherever the code only tests *)
(* truthiness.  Numbers with a fraction (pull, damage, scale) are counted  *)
(* in hundredths.                                                          *)
(***************************************************************************)
EXTENDS Integers, Sequences, FiniteSets, TLC

VARIABLES doc, pc, out, files, cls, firstDoc, firstCls, pipe, run, gui

vars == <<doc, pc, out, files, cls, firstDoc, firstCls, pipe, run, gui>>

(* ------------------------------ bounds -------------------------------- *)

MaxOverrides == 2

MaxCmd == 2

(* documents with at most this many overrides are also read with a display *)
MaxDisplayed == 1

(* the JSON files of one directory *)
MaxFiles == 3

(* the worker threads that one session of the window starts *)
MaxWorkers == 3

(* ------------------------- string primitives -------------------------- *)

Truthy(s) == s # <<>>

StartsWith(s, p) == Len(s) >= Len(p) /\ SubSeq(s, 1, Len(p)) = p

Contains(s, p) ==
    \E i \in 1..(Len(s) + 1) :
        i + Len(p) - 1 <= Len(s) /\ SubSeq(s, i, i + Len(p) - 1) = p

OrElse(a, b) == IF Truthy(a) THEN a ELSE b

Colon == <<":">>

MinecraftNs == <<"minecraft", ":">>

ItemDir == <<"item", "/">>

MinecraftItem == <<"minecraft", ":", "item", "/">>

FirstIndex(s, tok) == CHOOSE i \in 1..Len(s) : s[i] = tok /\ \A j \in 1..(i - 1) : s[j] # tok

Get(f, k, default) == IF k \in DOMAIN f THEN f[k] ELSE default

(* ----------------------------- file paths ----------------------------- *)

LowerTok(t) ==
    CASE t = "BOW" -> "bow"
      [] t = "SHIELD" -> "shield"
      [] t = ".JSON" -> ".json"
      [] OTHER -> t

Lower(s) == [i \in 1..Len(s) |-> LowerTok(s[i])]

RECURSIVE Basename(_)
Basename(p) ==
    IF p = <<>> THEN <<>>
    ELSE IF p[Len(p)] = "/" THEN <<>>
    ELSE Basename(SubSeq(p, 1, Len(p) - 1)) \o <<p[Len(p)]>>

SplitextRoot(name) ==
    IF Len(name) > 1 /\ name[Len(name)] \in {".json", ".txt"}
    THEN SubSeq(name, 1, Len(name) - 1)
    ELSE name

Json(stem) == stem \o <<".json">>

(* ------------------------- classification tests ----------------------- *)

Overrides(d) == IF d.hasOverrides THEN d.overrides ELSE <<>>

(* the result of a lookup that raised KeyError *)
KeyError == [KeyError |-> TRUE]

(* override["predicate"] in place of override.get("predicate", {}) *)
PredicateOf_subscript(o) == IF "predicate" \in DOMAIN o THEN o.predicate ELSE KeyError

(* override.get("predicate", {}) *)
PredicateOf(o) == Get(o, "predicate", <<>>)

AnyOverride(d, Test(_)) == \E i \in 1..Len(Overrides(d)) : Test(Overrides(d)[i])

is_fishing_rod_model(d) ==
    \/ Lower(Basename(d.path)) = Json(<<"fishing_rod">>)
    \/ /\ d.parent = <<"item", "/", "handheld_rod">>
       /\ d.hasOverrides
       /\ AnyOverride(d, LAMBDA o : "cast" \in DOMAIN PredicateOf(o))

is_shield_model(d) ==
    \/ Lower(Basename(d.path)) = Json(<<"shield">>)
    \/ /\ d.parent = <<"builtin", "/", "entity">>
       /\ d.hasOverrides
       /\ AnyOverride(d, LAMBDA o : "blocking" \in DOMAIN PredicateOf(o))

TemplateSkull == <<"minecraft", ":", "item", "/", "template_skull">>

head_mappings ==
    (Json(<<"player_head">>) :> [kind |-> "player", base |-> TemplateSkull])
    @@ (Json(<<"piglin_head">>) :> [kind |-> "piglin", base |-> TemplateSkull])
    @@ (Json(<<"zombie_head">>) :> [kind |-> "zombie", base |-> TemplateSkull])
    @@ (Json(<<"creeper_head">>) :> [kind |-> "creeper", base |-> TemplateSkull])
    @@ (Json(<<"dragon_head">>) :>
            [kind |-> "dragon", base |-> <<"minecraft", ":", "item", "/", "dragon_head">>])
    @@ (Json(<<"wither_skeleton_skull">>) :>
            [kind |-> "wither_skeleton", base |-> TemplateSkull])
    @@ (Json(<<"skeleton_skull">>) :> [kind |-> "skeleton", base |-> TemplateSkull])

is_head_model(d) ==
    LET n == Lower(Basename(d.path)) IN
    IF n \in DOMAIN head_mappings
    THEN [is |-> TRUE, kind |-> head_mappings[n].kind, base |-> head_mappings[n].base]
    ELSE [is |-> FALSE, kind |-> "None", base |-> <<>>]

is_damage_model(d) ==
    /\ d.hasOverrides
    /\ AnyOverride(d, LAMBDA o :
            /\ "damaged" \in DOMAIN PredicateOf(o)
            /\ "damage" \in DOMAIN PredicateOf(o)
            /\ "custom_model_data" \notin DOMAIN PredicateOf(o))

potion_files == {Json(<<"potion">>), Json(<<"splash_potion">>), Json(<<"lingering_potion">>)}

is_potion_model(d) == Lower(Basename(d.path)) \in potion_files

is_chest_model(d) ==
    LET n == Lower(Basename(d.path)) IN
    IF n = Json(<<"chest">>) THEN [is |-> TRUE, type |-> <<"chest">>]
    ELSE IF n = Json(<<"trapped_chest">>) THEN [is |-> TRUE, type |-> <<"trapped_chest">>]
    ELSE [is |-> FALSE, type |-> <<>>]

has_mixed_custom_damage(d) ==
    /\ d.hasOverrides
    /\ AnyOverride(d, LAMBDA o :
            /\ "custom_model_data" \in DOMAIN PredicateOf(o)
            /\ "damaged" \in DOMAIN PredicateOf(o)
            /\ "damage" \in DOMAIN PredicateOf(o))

is_bow(d) ==
    LET normalized_filename == Lower(Basename(d.path)) IN
    \/ normalized_filename = Json(<<"bow">>)
    \/ (~is_chest_model(d).is /\ SplitextRoot(normalized_filename) = <<"bow">>)

is_crossbow(d) ==
    LET normalized_filename == Lower(Basename(d.path)) IN
    \/ normalized_filename = Json(<<"cross", "bow">>)
    \/ (~is_chest_model(d).is /\ SplitextRoot(normalized_filename) = <<"cross", "bow">>)


(* ------------------------- lists and dictionaries --------------------- *)

Min(S) == CHOOSE x \in S : \A y \in S : x <= y

RECURSIVE SortByKey(_, _, _)
SortByKey(s, k, keys) ==
    IF keys = {} THEN <<>>
    ELSE SelectSeq(s, LAMBDA e : e[k] = Min(keys)) \o SortByKey(s, k, keys \ {Min(keys)})

(* sorted(s, key=lambda x: x[k]): ascending and stable *)
SortedBy(s, k) == SortByKey(s, k, {s[i][k] : i \in 1..Len(s)})

RECURSIVE SortedKeys(_)
SortedKeys(S) == IF S = {} THEN <<>> ELSE <<Min(S)>> \o SortedKeys(S \ {Min(S)})

(* a Python dict: keys in insertion order, val the mapping *)
EmptyDict == [keys |-> <<>>, val |-> [c \in {} |-> 0]]

DictHas(g, c) == c \in DOMAIN g.val

DictSet(g, c, v) ==
    [keys |-> IF DictHas(g, c) THEN g.keys ELSE Append(g.keys, c),
     val |-> (c :> v) @@ g.val]

DictGetOrInit(g, c, init) == IF DictHas(g, c) THEN g.val[c] ELSE init

MapSeq(s, F(_)) == [i \in 1..Len(s) |-> F(s[i])]

(* ----------------------------- output nodes --------------------------- *)

ModelNode(type, m) == [type |-> type, model |-> m]

Entry(threshold, node) == [threshold |-> threshold, model |-> node]

(* the display copied only when it is truthy: an empty dict is left out *)
WithDisplay_if_truthy(d, json) ==
    IF d.hasDisplay /\ d.display # "{}" THEN json @@ [display |-> d.display] ELSE json

WithDisplay(d, json) == IF d.hasDisplay THEN json @@ [display |-> d.display] ELSE json

Returned(json) == [exc |-> "none", json |-> json]

Raised(e) == [exc |-> e]

(* ---------------------------- damage builders ------------------------- *)

IsPureDamageOverride(o) ==
    /\ "damaged" \in DOMAIN PredicateOf(o)
    /\ "damage" \in DOMAIN PredicateOf(o)
    /\ "custom_model_data" \notin DOMAIN PredicateOf(o)

(* the model path of a damage entry left as it is in the override *)
DamagePathNormalize_as_is(model_path) == model_path

DamagePathNormalize(model_path) ==
    IF ~Contains(model_path, Colon) THEN MinecraftNs \o model_path ELSE model_path

convert_damage_model(d, base_texture_arg) ==
    LET base_texture ==
            IF Truthy(base_texture_arg) THEN base_texture_arg
            ELSE OrElse(d.layer0, d.parent)
        damage_overrides ==
            SortedBy(MapSeq(SelectSeq(Overrides(d), IsPureDamageOverride),
                            LAMBDA o : [damage |-> PredicateOf(o).damage, model |-> o.model]),
                     "damage")
        entries ==
            MapSeq(damage_overrides,
                   LAMBDA s : Entry(s.damage, ModelNode("model", DamagePathNormalize(s.model))))
    IN WithDisplay(d,
        [model |-> [type |-> "range_dispatch",
                    property |-> "damage",
                    fallback |-> ModelNode("model", base_texture),
                    entries |-> entries]])

MixedBasePath(d) ==
    LET base_path == OrElse(d.layer0, d.parent) IN
    IF ~Contains(base_path, Colon) /\ StartsWith(base_path, ItemDir) THEN MinecraftNs \o base_path
    ELSE IF ~Contains(base_path, Colon) THEN MinecraftItem \o base_path
    ELSE base_path

RECURSIVE MixedGroups(_, _)
MixedGroups(ovs, n) ==
    IF n = 0 THEN EmptyDict
    ELSE LET g == MixedGroups(ovs, n - 1)
             predicate == PredicateOf(ovs[n])
         IN IF "custom_model_data" \notin DOMAIN predicate THEN g
            ELSE LET cmd == predicate.custom_model_data
                     cur == DictGetOrInit(g, cmd, [base_model |-> <<>>, damage_states |-> <<>>])
                 IN IF "damaged" \in DOMAIN predicate /\ "damage" \in DOMAIN predicate
                    THEN DictSet(g, cmd,
                            [cur EXCEPT !.damage_states =
                                Append(@, [damage |-> predicate.damage, model |-> ovs[n].model])])
                    ELSE DictSet(g, cmd, [cur EXCEPT !.base_model = ovs[n].model])

(* the damage states of a group with the namespace rule of convert_damage_model *)
DamageStateEntries_normalized(damage_states) ==
    MapSeq(SortedBy(damage_states, "damage"),
           LAMBDA s : Entry(s.damage, ModelNode("model", DamagePathNormalize(s.model))))

DamageStateEntries(damage_states) ==
    MapSeq(SortedBy(damage_states, "damage"),
           LAMBDA s : Entry(s.damage, ModelNode("model", s.model)))

convert_mixed_custom_damage_model(d) ==
    LET base_path == MixedBasePath(d)
        cmd_groups == MixedGroups(Overrides(d), Len(Overrides(d)))
        cmd_entry(cmd) ==
            Entry(cmd,
                  [type |-> "range_dispatch",
                   property |-> "damage",
                   fallback |-> ModelNode("model", OrElse(cmd_groups.val[cmd].base_model, base_path)),
                   entries |-> DamageStateEntries(cmd_groups.val[cmd].damage_states)])
    IN WithDisplay(d,
        [model |-> [type |-> "range_dispatch",
                    property |-> "custom_model_data",
                    fallback |-> ModelNode("model", base_path),
                    entries |-> MapSeq(SortedKeys(DOMAIN cmd_groups.val), cmd_entry)]])

(* ------------------------ convert_json_format ------------------------- *)

PotionBasePath(d) ==
    IF d.layer0 = <<"item", "/", "splash_potion_overlay">>
    THEN <<"minecraft", ":", "item", "/", "splash_potion">>
    ELSE IF d.layer0 = <<"item", "/", "lingering_potion_overlay">>
    THEN <<"minecraft", ":", "item", "/", "lingering_potion">>
    ELSE <<"minecraft", ":", "item", "/", "potion">>

CrossbowStandbyRewrite(base_path) ==
    IF base_path = <<"item", "/", "cross", "bow", "_standby">>
    THEN <<"item", "/", "cross", "bow">>
    ELSE IF base_path = <<"minecraft", ":", "item", "/", "cross", "bow", "_standby">>
    THEN <<"minecraft", ":", "item", "/", "cross", "bow">>
    ELSE base_path

TexturePathNormalize(base_path) ==
    IF StartsWith(base_path, MinecraftItem) THEN base_path
    ELSE IF StartsWith(base_path, ItemDir) THEN MinecraftNs \o base_path
    ELSE IF ~StartsWith(base_path, MinecraftNs) THEN MinecraftItem \o base_path
    ELSE base_path

(* base_path as it stands after the normalisation block (lines 623-686) *)
NormalizedBasePath(d) ==
    LET base_texture == d.layer0
        parent_path == d.parent
        base_path0 == IF is_potion_model(d) THEN PotionBasePath(d)
                      ELSE OrElse(base_texture, parent_path)
    IN IF is_head_model(d).is THEN is_head_model(d).base
       ELSE IF is_chest_model(d).is THEN ItemDir \o is_chest_model(d).type
       ELSE IF Truthy(base_texture) /\ ~is_potion_model(d)
       THEN IF ~Truthy(parent_path)
            THEN TexturePathNormalize(CrossbowStandbyRewrite(base_path0))
            ELSE CrossbowStandbyRewrite(base_path0)
       ELSE base_path0

ShieldBase == <<"minecraft", ":", "item", "/", "shield">>

ShieldBlockingBase == <<"minecraft", ":", "item", "/", "shield_blocking">>

(* base_path as the entry builders see it: the shield fallback reassigns it *)
BasePath(d) == IF is_shield_model(d) THEN ShieldBase ELSE NormalizedBasePath(d)

ShieldFallback ==
    [type |-> "minecraft:condition",
     property |-> "minecraft:using_item",
     on_false |-> [type |-> "minecraft:special", base |-> ShieldBase,
                   model |-> [type |-> "minecraft:shield"]],
     on_true |-> [type |-> "minecraft:special", base |-> ShieldBlockingBase,
                  model |-> [type |-> "minecraft:shield"]]]

HeadFallback(d) ==
    [type |-> "minecraft:special",
     base |-> NormalizedBasePath(d),
     model |-> [type |-> "minecraft:head", kind |-> is_head_model(d).kind]]

ChestFallback(d) ==
    [type |-> "minecraft:special",
     base |-> NormalizedBasePath(d),
     model |-> [type |-> "minecraft:chest", texture |-> "minecraft:normal"]]

PotionTintDefault == 0 - 13083194

(* a tint by potion kind: only potion.json keeps the default *)
PotionFallback_tint_by_kind(d) ==
    [type |-> "model",
     model |-> NormalizedBasePath(d),
     tints |-> <<[type |-> "minecraft:potion",
                  default |-> IF Lower(Basename(d.path)) = Json(<<"potion">>)
                              THEN PotionTintDefault ELSE 0 - 1]>>]

PotionFallback(d) ==
    [type |-> "model",
     model |-> NormalizedBasePath(d),
     tints |-> <<[type |-> "minecraft:potion", default |-> PotionTintDefault]>>]

MinecraftPrefixed(m) == IF ~StartsWith(m, MinecraftNs) THEN MinecraftNs \o m ELSE m

RECURSIVE RodOwnModels(_, _)
RodOwnModels(ovs, n) ==
    IF n = 0 THEN [base_model |-> <<>>, cast_model |-> <<>>]
    ELSE LET r == RodOwnModels(ovs, n - 1)
             predicate == PredicateOf(ovs[n])
         IN IF "custom_model_data" \notin DOMAIN predicate
            THEN IF Get(predicate, "cast", 0) = 1
                 THEN [r EXCEPT !.cast_model = ovs[n].model]
                 ELSE [r EXCEPT !.base_model = ovs[n].model]
            ELSE r

FishingRodFallback(d) ==
    LET own == RodOwnModels(Overrides(d), Len(Overrides(d)))
        base_model ==
            IF Truthy(own.base_model) THEN own.base_model
            ELSE IF Truthy(d.layer0) THEN d.layer0
            ELSE <<"minecraft", ":", "item", "/", "fishing_rod">>
        cast_model ==
            OrElse(own.cast_model, <<"minecraft", ":", "item", "/", "fishing_rod_cast">>)
    IN [type |-> "minecraft:condition",
        property |-> "minecraft:fishing_rod/cast",
        on_false |-> ModelNode("minecraft:model", MinecraftPrefixed(base_model)),
        on_true |-> ModelNode("minecraft:model", MinecraftPrefixed(cast_model))]

McItem(name) == ModelNode("minecraft:model", MinecraftItem \o name)

UseDurationScale == 5

BowPull1 == 65

BowPull2 == 90

CrossbowPull1 == 58

CrossbowPull2 == 100

BowFallback ==
    [type |-> "minecraft:condition",
     property |-> "minecraft:using_item",
     on_false |-> McItem(<<"bow">>),
     on_true |-> [type |-> "minecraft:range_dispatch",
                  property |-> "minecraft:use_duration",
                  scale |-> UseDurationScale,
                  fallback |-> McItem(<<"bow", "_pulling_0">>),
                  entries |-> <<Entry(BowPull1, McItem(<<"bow", "_pulling_1">>)),
                                Entry(BowPull2, McItem(<<"bow", "_pulling_2">>))>>]]

CrossbowFallback ==
    [type |-> "minecraft:condition",
     property |-> "minecraft:using_item",
     on_false |-> [type |-> "minecraft:select",
                   property |-> "minecraft:charge_type",
                   fallback |-> McItem(<<"cross", "bow">>),
                   cases |-> <<[model |-> McItem(<<"cross", "bow", "_arrow">>), when |-> "arrow"],
                               [model |-> McItem(<<"cross", "bow", "_firework">>),
                                when |-> "rocket"]>>],
     on_true |-> [type |-> "minecraft:range_dispatch",
                  property |-> "minecraft:crossbow/pull",
                  fallback |-> McItem(<<"cross", "bow", "_pulling_0">>),
                  entries |-> <<Entry(CrossbowPull1, McItem(<<"cross", "bow", "_pulling_1">>)),
                                Entry(CrossbowPull2, McItem(<<"cross", "bow", "_pulling_2">>))>>]]

(* the if/elif chain that builds the fallback (lines 688-877) *)
FallbackKind(d) ==
    IF is_shield_model(d) THEN "shield"
    ELSE IF is_head_model(d).is THEN "head"
    ELSE IF is_chest_model(d).is THEN "chest"
    ELSE IF is_potion_model(d) THEN "potion"
    ELSE IF is_fishing_rod_model(d) THEN "fishing_rod"
    ELSE IF is_bow(d) THEN "bow"
    ELSE IF is_crossbow(d) THEN "crossbow"
    ELSE "plain"

Fallback(d) ==
    CASE FallbackKind(d) = "shield" -> ShieldFallback
      [] FallbackKind(d) = "head" -> HeadFallback(d)
      [] FallbackKind(d) = "chest" -> ChestFallback(d)
      [] FallbackKind(d) = "potion" -> PotionFallback(d)
      [] FallbackKind(d) = "fishing_rod" -> FishingRodFallback(d)
      [] FallbackKind(d) = "bow" -> BowFallback
      [] FallbackKind(d) = "crossbow" -> CrossbowFallback
      [] OTHER -> ModelNode("model", BasePath(d))

(* --------------------- bow and crossbow entries ----------------------- *)

Skipped(o) == "predicate" \notin DOMAIN o \/ "model" \notin DOMAIN o

PullState(o) == [pull |-> Get(o.predicate, "pull", 0), model |-> o.model]

CrossbowGroupInit == [base |-> <<>>, pulling_states |-> <<>>, arrow |-> <<>>, firework |-> <<>>]

RECURSIVE CrossbowGroups(_, _)
CrossbowGroups(ovs, n) ==
    IF n = 0 THEN EmptyDict
    ELSE LET g == CrossbowGroups(ovs, n - 1)
             o == ovs[n]
         IN IF Skipped(o) THEN g
            ELSE IF "custom_model_data" \notin DOMAIN o.predicate THEN g
            ELSE LET cmd == o.predicate.custom_model_data
                     cur == DictGetOrInit(g, cmd, CrossbowGroupInit)
                 IN IF "pulling" \in DOMAIN o.predicate
                    THEN DictSet(g, cmd,
                            [cur EXCEPT !.pulling_states = Append(@, PullState(o))])
                    ELSE IF "charged" \in DOMAIN o.predicate
                    THEN IF Get(o.predicate, "firework", 0) # 0
                         THEN DictSet(g, cmd, [cur EXCEPT !.firework = o.model])
                         ELSE DictSet(g, cmd, [cur EXCEPT !.arrow = o.model])
                    ELSE DictSet(g, cmd, [cur EXCEPT !.base = o.model])

(* group["base"] or pulling_states[0]["model"] if pulling_states else base_path:
   Python parses it as (A or B) if C else D *)
GroupBaseModel(group, pulling_states, base_path) ==
    IF pulling_states # <<>>
    THEN OrElse(group.base, pulling_states[1].model)
    ELSE base_path

PullEntries(states) ==
    MapSeq(states, LAMBDA s : Entry(s.pull, ModelNode("minecraft:model", s.model)))

ChargeCases(group) ==
    (IF Truthy(group.arrow)
     THEN <<[model |-> ModelNode("minecraft:model", group.arrow), when |-> "arrow"]>>
     ELSE <<>>)
    \o (IF Truthy(group.firework)
        THEN <<[model |-> ModelNode("minecraft:model", group.firework), when |-> "rocket"]>>
        ELSE <<>>)

CrossbowEntry(cmd, group, base_path) ==
    LET pulling_states == SortedBy(group.pulling_states, "pull")
        base_model == GroupBaseModel(group, pulling_states, base_path)
    IN Entry(cmd,
        [type |-> "minecraft:condition",
         property |-> "minecraft:using_item",
         on_false |-> [type |-> "minecraft:select",
                       property |-> "minecraft:charge_type",
                       fallback |-> ModelNode("minecraft:model", base_model),
                       cases |-> ChargeCases(group)],
         on_true |-> [type |-> "minecraft:range_dispatch",
                      property |-> "minecraft:crossbow/pull",
                      fallback |-> ModelNode("minecraft:model",
                                        IF pulling_states # <<>> THEN pulling_states[1].model
                                        ELSE base_model),
                      entries |-> IF pulling_states # <<>>
                                  THEN PullEntries(Tail(pulling_states))
                                  ELSE <<>>]])

CrossbowEntries(d) ==
    LET cmd_groups == CrossbowGroups(d.overrides, Len(d.overrides)) IN
    MapSeq(cmd_groups.keys, LAMBDA cmd : CrossbowEntry(cmd, cmd_groups.val[cmd], BasePath(d)))

BowGroupInit == [base |-> <<>>, pulling_states |-> <<>>]

RECURSIVE BowGroups(_, _)
BowGroups(ovs, n) ==
    IF n = 0 THEN EmptyDict
    ELSE LET g == BowGroups(ovs, n - 1)
             o == ovs[n]
         IN IF Skipped(o) THEN g
            ELSE IF "custom_model_data" \notin DOMAIN o.predicate THEN g
            ELSE LET cmd == o.predicate.custom_model_data
                     cur == DictGetOrInit(g, cmd, BowGroupInit)
                 IN IF "pulling" \in DOMAIN o.predicate
                    THEN DictSet(g, cmd,
                            [cur EXCEPT !.pulling_states = Append(@, PullState(o))])
                    ELSE DictSet(g, cmd, [cur EXCEPT !.base = o.model])

(* the bow entry built as the crossbow entry is: the first pulling state
   becomes the on_true fallback and is left out of the entries *)
BowEntry_first_consumed(cmd, group, base_path) ==
    LET pulling_states == SortedBy(group.pulling_states, "pull")
        base_model == GroupBaseModel(group, pulling_states, base_path)
    IN Entry(cmd,
        [type |-> "minecraft:condition",
         property |-> "minecraft:using_item",
         on_false |-> ModelNode("minecraft:model", base_model),
         on_true |-> [type |-> "minecraft:range_dispatch",
                      property |-> "minecraft:use_duration",
                      scale |-> UseDurationScale,
                      fallback |-> ModelNode("minecraft:model",
                                        IF pulling_states # <<>> THEN pulling_states[1].model
                                        ELSE base_model),
                      entries |-> IF pulling_states # <<>>
                                  THEN PullEntries(Tail(pulling_states))
                                  ELSE <<>>]])

BowEntry(cmd, group, base_path) ==
    LET pulling_states == SortedBy(group.pulling_states, "pull")
        base_model == GroupBaseModel(group, pulling_states, base_path)
    IN Entry(cmd,
        [type |-> "minecraft:condition",
         property |-> "minecraft:using_item",
         on_false |-> ModelNode("minecraft:model", base_model),
         on_true |-> [type |-> "minecraft:range_dispatch",
                      property |-> "minecraft:use_duration",
                      scale |-> UseDurationScale,
                      fallback |-> ModelNode("minecraft:model", base_model),
                      entries |-> PullEntries(SelectSeq(pulling_states,
                                        LAMBDA s : s.model # base_model))]])

BowEntries(d) ==
    LET cmd_groups == BowGroups(d.overrides, Len(d.overrides)) IN
    MapSeq(cmd_groups.keys, LAMBDA cmd : BowEntry(cmd, cmd_groups.val[cmd], BasePath(d)))

(* ------------- chest, shield, fishing rod and plain entries ----------- *)

HasCmd(o) == "predicate" \in DOMAIN o /\ "custom_model_data" \in DOMAIN o.predicate

CmdOverrides(d) == SelectSeq(d.overrides, HasCmd)

(* the chest entry over the document's base path in place of the override's model *)
ChestEntry_over_chest_base(cmd, model_path) ==
    Entry(cmd,
        [type |-> "minecraft:select",
         property |-> "minecraft:local_time",
         pattern |-> "MM-dd",
         cases |-> <<[model |-> [type |-> "minecraft:special",
                                 base |-> ItemDir \o <<"chest">>,
                                 model |-> [type |-> "minecraft:chest",
                                            texture |-> "minecraft:christmas"]],
                      when |-> <<"12-24", "12-25", "12-26">>]>>,
         fallback |-> [type |-> "minecraft:special",
                       base |-> ItemDir \o <<"chest">>,
                       model |-> [type |-> "minecraft:chest",
                                  texture |-> "minecraft:normal"]]])

ChestEntry(cmd, model_path) ==
    Entry(cmd,
        [type |-> "minecraft:select",
         property |-> "minecraft:local_time",
         pattern |-> "MM-dd",
         cases |-> <<[model |-> [type |-> "minecraft:special",
                                 base |-> model_path,
                                 model |-> [type |-> "minecraft:chest",
                                            texture |-> "minecraft:christmas"]],
                      when |-> <<"12-24", "12-25", "12-26">>]>>,
         fallback |-> [type |-> "minecraft:special",
                       base |-> model_path,
                       model |-> [type |-> "minecraft:chest",
                                  texture |-> "minecraft:normal"]]])

ChestEntries(d) ==
    MapSeq(CmdOverrides(d), LAMBDA o : ChestEntry(o.predicate.custom_model_data, o.model))

PlainEntries(d) ==
    MapSeq(CmdOverrides(d),
           LAMBDA o : Entry(o.predicate.custom_model_data, ModelNode("model", o.model)))

CmdKeys(d) == {CmdOverrides(d)[i].predicate.custom_model_data : i \in 1..Len(CmdOverrides(d))}

(* predicate.get("custom_model_data", cmd_value) == cmd_value: an override
   without custom_model_data counts for every group *)
RECURSIVE ShieldModels_default_cmd(_, _, _)
ShieldModels_default_cmd(ovs, n, cmd_value) ==
    IF n = 0 THEN [normal_model |-> <<>>, blocking_model_override |-> <<>>]
    ELSE LET r == ShieldModels_default_cmd(ovs, n - 1, cmd_value)
             predicate == PredicateOf(ovs[n])
         IN IF Get(predicate, "custom_model_data", cmd_value) = cmd_value
            THEN IF Get(predicate, "blocking", 0) = 1
                 THEN [r EXCEPT !.blocking_model_override = ovs[n].model]
                 ELSE IF "blocking" \notin DOMAIN predicate
                 THEN [r EXCEPT !.normal_model = ovs[n].model]
                 ELSE r
            ELSE r

RECURSIVE ShieldModels(_, _, _)
ShieldModels(ovs, n, cmd_value) ==
    IF n = 0 THEN [normal_model |-> <<>>, blocking_model_override |-> <<>>]
    ELSE LET r == ShieldModels(ovs, n - 1, cmd_value)
             predicate == PredicateOf(ovs[n])
         IN IF Get(predicate, "custom_model_data", 0 - 1) = cmd_value
            THEN IF Get(predicate, "blocking", 0) = 1
                 THEN [r EXCEPT !.blocking_model_override = ovs[n].model]
                 ELSE IF "blocking" \notin DOMAIN predicate
                 THEN [r EXCEPT !.normal_model = ovs[n].model]
                 ELSE r
            ELSE r

(* get_shield_model without its "if not normal_model: return None" *)
get_shield_model_no_drop(cmd_value, d) ==
    LET m == ShieldModels(Overrides(d), Len(Overrides(d)), cmd_value) IN
    <<[type |-> "minecraft:condition",
       property |-> "minecraft:using_item",
       on_false |-> ModelNode("minecraft:model", m.normal_model),
       on_true |-> ModelNode("minecraft:model",
                       OrElse(m.blocking_model_override, m.normal_model))]>>

(* get_shield_model without the "or normal_model" of its on_true model *)
get_shield_model_no_fallback(cmd_value, d) ==
    LET m == ShieldModels(Overrides(d), Len(Overrides(d)), cmd_value) IN
    IF ~Truthy(m.normal_model) THEN <<>>
    ELSE <<[type |-> "minecraft:condition",
            property |-> "minecraft:using_item",
            on_false |-> ModelNode("minecraft:model", m.normal_model),
            on_true |-> ModelNode("minecraft:model", m.blocking_model_override)]>>

(* <<>> stands for the None that get_shield_model returns *)
get_shield_model(cmd_value, d) ==
    LET m == ShieldModels(Overrides(d), Len(Overrides(d)), cmd_value) IN
    IF ~Truthy(m.normal_model) THEN <<>>
    ELSE <<[type |-> "minecraft:condition",
            property |-> "minecraft:using_item",
            on_false |-> ModelNode("minecraft:model", m.normal_model),
            on_true |-> ModelNode("minecraft:model",
                            OrElse(m.blocking_model_override, m.normal_model))]>>

RECURSIVE ShieldEntriesFor(_, _)
ShieldEntriesFor(d, cmds) ==
    IF cmds = <<>> THEN <<>>
    ELSE (IF get_shield_model(Head(cmds), d) # <<>>
          THEN <<Entry(Head(cmds), get_shield_model(Head(cmds), d)[1])>>
          ELSE <<>>)
         \o ShieldEntriesFor(d, Tail(cmds))

ShieldEntries(d) == ShieldEntriesFor(d, SortedKeys(CmdKeys(d)))

RECURSIVE RodGroupModels(_, _, _)
RodGroupModels(ovs, n, cmd) ==
    IF n = 0 THEN [normal_model |-> <<>>, cast_model |-> <<>>]
    ELSE LET r == RodGroupModels(ovs, n - 1, cmd)
             predicate == PredicateOf(ovs[n])
         IN IF Get(predicate, "custom_model_data", 0 - 1) = cmd
            THEN IF Get(predicate, "cast", 0) = 1
                 THEN [r EXCEPT !.cast_model = ovs[n].model]
                 ELSE [r EXCEPT !.normal_model = ovs[n].model]
            ELSE r

RodCondition(normal_model, cast_model) ==
    [type |-> "minecraft:condition",
     property |-> "minecraft:fishing_rod/cast",
     on_false |-> ModelNode("minecraft:model", normal_model),
     on_true |-> ModelNode("minecraft:model", cast_model)]

RECURSIVE FishingRodEntriesFor(_, _)
FishingRodEntriesFor(d, cmds) ==
    IF cmds = <<>> THEN <<>>
    ELSE LET m == RodGroupModels(CmdOverrides(d), Len(CmdOverrides(d)), Head(cmds)) IN
         (IF Truthy(m.normal_model) /\ Truthy(m.cast_model)
          THEN <<Entry(Head(cmds), RodCondition(m.normal_model, m.cast_model))>>
          ELSE <<>>)
         \o FishingRodEntriesFor(d, Tail(cmds))

FishingRodEntries(d) == FishingRodEntriesFor(d, SortedKeys(CmdKeys(d)))

(* the if/elif chain that builds the entries (lines 896-1170) *)
EntriesKind(d) ==
    IF is_crossbow(d) THEN "crossbow"
    ELSE IF is_bow(d) THEN "bow"
    ELSE IF is_chest_model(d).is THEN "chest"
    ELSE IF is_shield_model(d) THEN "shield"
    ELSE IF is_fishing_rod_model(d) THEN "fishing_rod"
    ELSE "plain"

(* an exception of a predicate lookup leaves the classification tests *)
ClassificationRaised(d) ==
    \E i \in 1..Len(Overrides(d)) : "KeyError" \in DOMAIN PredicateOf(Overrides(d)[i])

(* the classification flags of convert_json_format (lines 623-664) and the
   branch that each of its two if/elif chains takes on them *)
Classification(d) ==
    IF ClassificationRaised(d) THEN Raised("KeyError")
    ELSE [exc |-> "none",
          has_mixed_custom_damage |-> has_mixed_custom_damage(d),
          is_damage_model |-> is_damage_model(d),
          is_potion |-> is_potion_model(d),
          is_chest |-> is_chest_model(d).is,
          is_head |-> is_head_model(d).is,
          is_shield |-> is_shield_model(d),
          is_fishing_rod |-> is_fishing_rod_model(d),
          is_bow |-> is_bow(d),
          is_crossbow |-> is_crossbow(d),
          fallback |-> FallbackKind(d),
          entries |-> EntriesKind(d)]

Entries(d) ==
    CASE EntriesKind(d) = "crossbow" -> CrossbowEntries(d)
      [] EntriesKind(d) = "bow" -> BowEntries(d)
      [] EntriesKind(d) = "chest" -> ChestEntries(d)
      [] EntriesKind(d) = "shield" -> ShieldEntries(d)
      [] EntriesKind(d) = "fishing_rod" -> FishingRodEntries(d)
      [] OTHER -> PlainEntries(d)

convert_json_format(d, is_item_model) ==
    IF has_mixed_custom_damage(d) THEN Returned(convert_mixed_custom_damage_model(d))
    ELSE IF is_damage_model(d) THEN Returned(convert_damage_model(d,
                IF is_potion_model(d) THEN PotionBasePath(d) ELSE OrElse(d.layer0, d.parent)))
    ELSE IF ~is_item_model
    THEN Returned(WithDisplay(d,
            [model |-> [type |-> "range_dispatch",
                        property |-> "custom_model_data",
                        fallback |-> Fallback(d),
                        entries |-> IF d.hasOverrides THEN Entries(d) ELSE <<>>]]))
    ELSE IF d.hasOverrides /\ Entries(d) # <<>>
    THEN Raised("AttributeError")
    ELSE Returned(WithDisplay(d,
            [model |-> [type |-> "model",
                        property |-> "None",
                        fallback |-> Fallback(d),
                        entries |-> "None"]]))

(* --------------------- convert_item_model_format ---------------------- *)

NoFiles == [f \in {} |-> 0]

(* the file written for a base model path, relative to output_path *)
FileNameOf(model_path) ==
    IF Contains(model_path, Colon)
    THEN LET i == FirstIndex(model_path, ":") IN
         SubSeq(model_path, 1, i - 1) \o <<"/">>
            \o SubSeq(model_path, i + 1, Len(model_path)) \o <<".json">>
    ELSE model_path \o <<".json">>

WriteFile(fs, name, json) == (name :> json) @@ fs

RECURSIVE ItemRodGroups(_, _)
ItemRodGroups(ovs, n) ==
    IF n = 0 THEN EmptyDict
    ELSE LET g == ItemRodGroups(ovs, n - 1)
             o == ovs[n]
         IN IF Skipped(o) THEN g
            ELSE IF "custom_model_data" \notin DOMAIN o.predicate THEN g
            ELSE LET cmd == o.predicate.custom_model_data
                     cur == DictGetOrInit(g, cmd, [cast |-> <<>>, normal |-> <<>>])
                 IN IF Get(o.predicate, "cast", 0) = 1
                    THEN DictSet(g, cmd, [cur EXCEPT !.cast = o.model])
                    ELSE DictSet(g, cmd, [cur EXCEPT !.normal = o.model])

RECURSIVE ItemRodWrite(_, _, _)
ItemRodWrite(d, g, n) ==
    IF n = 0 THEN NoFiles
    ELSE LET fs == ItemRodWrite(d, g, n - 1)
             models == g.val[g.keys[n]]
         IN IF ~Truthy(models.normal) \/ ~Truthy(models.cast) THEN fs
            ELSE WriteFile(fs, FileNameOf(models.normal),
                    WithDisplay(d, [model |-> RodCondition(models.normal, models.cast)]))

ItemGroupInit ==
    [base |-> <<>>, damage_states |-> <<>>, pulling_states |-> <<>>, arrow |-> <<>>,
     firework |-> <<>>, blocking_model |-> <<>>, has_damage |-> FALSE]

RECURSIVE ItemGroups(_, _)
ItemGroups(ovs, n) ==
    IF n = 0 THEN EmptyDict
    ELSE LET g == ItemGroups(ovs, n - 1)
             o == ovs[n]
         IN IF Skipped(o) THEN g
            ELSE IF "custom_model_data" \notin DOMAIN o.predicate THEN g
            ELSE LET predicate == o.predicate
                     cmd == predicate.custom_model_data
                     cur == DictGetOrInit(g, cmd, ItemGroupInit)
                 IN IF "damage" \in DOMAIN predicate /\ "damaged" \in DOMAIN predicate
                    THEN DictSet(g, cmd,
                            [cur EXCEPT !.has_damage = TRUE,
                                        !.damage_states =
                                            Append(@, [damage |-> predicate.damage,
                                                       model |-> o.model])])
                    ELSE IF "pulling" \in DOMAIN predicate
                    THEN DictSet(g, cmd,
                            [cur EXCEPT !.pulling_states = Append(@, PullState(o))])
                    ELSE IF "charged" \in DOMAIN predicate
                    THEN IF Get(predicate, "firework", 0) # 0
                         THEN DictSet(g, cmd, [cur EXCEPT !.firework = o.model])
                         ELSE DictSet(g, cmd, [cur EXCEPT !.arrow = o.model])
                    ELSE IF "blocking" \in DOMAIN predicate
                    THEN IF Get(predicate, "blocking", 0) = 1
                         THEN DictSet(g, cmd, [cur EXCEPT !.blocking_model = o.model])
                         ELSE DictSet(g, cmd, [cur EXCEPT !.base = o.model])
                    ELSE DictSet(g, cmd, [cur EXCEPT !.base = o.model])

(* the if/elif chain that picks the builder of one group (lines 1405-1602) *)
ItemBuilderKind(d, group) ==
    IF is_shield_model(d) THEN "shield"
    ELSE IF Contains(group.base, <<"cross", "bow">>) THEN "crossbow"
    ELSE IF Contains(group.base, <<"bow">>) /\ ~Contains(group.base, <<"cross", "bow">>)
    THEN "bow"
    ELSE IF group.has_damage /\ group.damage_states # <<>> THEN "damage"
    ELSE IF is_potion_model(d) THEN "potion"
    ELSE IF is_chest_model(d).is THEN "chest"
    ELSE "plain"

ItemShieldModel(group) ==
    [type |-> "minecraft:condition",
     property |-> "minecraft:using_item",
     on_false |-> ModelNode("minecraft:model", group.base),
     on_true |-> ModelNode("minecraft:model", OrElse(group.blocking_model, group.base))]

ItemCrossbowModel(group) ==
    LET pulling_states == SortedBy(group.pulling_states, "pull") IN
    [type |-> "minecraft:condition",
     property |-> "minecraft:using_item",
     on_false |-> [type |-> "minecraft:select",
                   property |-> "minecraft:charge_type",
                   fallback |-> ModelNode("minecraft:model", group.base),
                   cases |-> ChargeCases(group)],
     on_true |-> [type |-> "minecraft:range_dispatch",
                  property |-> "minecraft:crossbow/pull",
                  fallback |-> ModelNode("minecraft:model",
                                    IF pulling_states # <<>> THEN pulling_states[1].model
                                    ELSE group.base),
                  entries |-> IF pulling_states # <<>>
                              THEN PullEntries(Tail(pulling_states))
                              ELSE <<>>]]

ItemBowModel(group) ==
    LET pulling_states == SortedBy(group.pulling_states, "pull") IN
    [type |-> "minecraft:condition",
     property |-> "minecraft:using_item",
     on_false |-> ModelNode("minecraft:model", group.base),
     on_true |-> [type |-> "minecraft:range_dispatch",
                  property |-> "minecraft:use_duration",
                  scale |-> UseDurationScale,
                  fallback |-> ModelNode("minecraft:model", group.base),
                  entries |-> PullEntries(SelectSeq(pulling_states,
                                    LAMBDA s : s.model # group.base))]]

ItemDamageModel(group) ==
    [type |-> "range_dispatch",
     property |-> "damage",
     fallback |-> ModelNode("model", group.base),
     entries |-> DamageStateEntries(group.damage_states)]

ItemPotionModel(group) ==
    [type |-> "model",
     model |-> group.base,
     tints |-> <<[type |-> "minecraft:potion", default |-> PotionTintDefault]>>]

ItemGroupModel(d, group) ==
    CASE ItemBuilderKind(d, group) = "shield" -> ItemShieldModel(group)
      [] ItemBuilderKind(d, group) = "crossbow" -> ItemCrossbowModel(group)
      [] ItemBuilderKind(d, group) = "bow" -> ItemBowModel(group)
      [] ItemBuilderKind(d, group) = "damage" -> ItemDamageModel(group)
      [] ItemBuilderKind(d, group) = "potion" -> ItemPotionModel(group)
      [] ItemBuilderKind(d, group) = "chest" -> ChestEntry(0, group.base).model
      [] OTHER -> ModelNode("model", group.base)

RECURSIVE ItemWrite(_, _, _)
ItemWrite(d, g, n) ==
    IF n = 0 THEN NoFiles
    ELSE LET fs == ItemWrite(d, g, n - 1)
             group == g.val[g.keys[n]]
         IN IF ~Truthy(group.base) THEN fs
            ELSE WriteFile(fs, FileNameOf(group.base),
                    WithDisplay(d, [model |-> ItemGroupModel(d, group)]))

(* the files convert_item_model_format leaves under output_path *)
convert_item_model_format(d) ==
    IF ~d.hasOverrides \/ d.overrides = <<>> THEN NoFiles
    ELSE IF is_fishing_rod_model(d)
    THEN LET g == ItemRodGroups(d.overrides, Len(d.overrides)) IN
         ItemRodWrite(d, g, Len(g.keys))
    ELSE LET g == ItemGroups(d.overrides, Len(d.overrides)) IN
         ItemWrite(d, g, Len(g.keys))

(* ------------------------- input documents ---------------------------- *)

ModelA == <<"custom", ":", "a">>

ModelB == <<"custom", ":", "b">>

Models == {ModelA, ModelB}

(* the model of the overrides that carry no custom_model_data: no namespace *)
OwnModel == <<"item", "/", "own">>

(* a model path of an override with custom_model_data that has no namespace *)
BareModel == <<"item", "/", "bare">>

NoState == [k \in {} |-> 0]

(* overrides with custom_model_data in 1..MaxCmd joined with a state predicate *)
CmdOv(states, models) ==
    {[predicate |-> [custom_model_data |-> c] @@ s, model |-> m] :
        c \in 1..MaxCmd, s \in states, m \in models}

(* overrides of the item's own states: no custom_model_data *)
OwnOv(states) == {[predicate |-> s, model |-> OwnModel] : s \in states}

(* an override that has no predicate at all *)
NoPredicateOv == {[model |-> OwnModel]}

InDir(name) == <<"models", "/", "item", "/">> \o name

(* a family of input documents: every path, parent and textures.layer0 of the
   family, with every list of at most n of its overrides *)
DocsOf(paths, parents, layer0s, ovs, n) ==
    [paths |-> paths, parents |-> parents, layer0s |-> layer0s, ovs |-> ovs, n |-> n]

Document(p, par, l, hasOv, o, dsp) ==
    [path |-> p, parent |-> par, layer0 |-> l, hasOverrides |-> hasOv, overrides |-> o,
     hasDisplay |-> dsp, display |-> "display"]

Pulling == [pulling |-> 1]

PullingAt65 == [pulling |-> 1, pull |-> 65]

BowDocs ==
    DocsOf({InDir(Json(<<"bow">>))}, {<<>>}, {<<"item", "/", "bow">>},
           CmdOv({NoState, Pulling, PullingAt65}, Models)
               \cup OwnOv({Pulling}) \cup NoPredicateOv,
           MaxOverrides)

CrossbowDocs ==
    DocsOf({InDir(Json(<<"cross", "bow">>))}, {<<>>}, {<<"item", "/", "cross", "bow", "_standby">>},
           CmdOv({NoState, Pulling, PullingAt65}, Models)
               \cup CmdOv({[charged |-> 1], [charged |-> 1, firework |-> 1]}, {ModelA})
               \cup OwnOv({Pulling}),
           MaxOverrides)

ShieldDocs ==
    DocsOf({InDir(Json(<<"shield">>)), InDir(Json(<<"buckler">>))},
           {<<"builtin", "/", "entity">>}, {<<>>},
           CmdOv({NoState, [blocking |-> 1]}, Models) \cup CmdOv({[blocking |-> 0]}, {ModelA})
               \cup OwnOv({[blocking |-> 1]}),
           MaxOverrides)

RodDocs ==
    DocsOf({InDir(Json(<<"fishing_rod">>)), InDir(Json(<<"net">>))},
           {<<"item", "/", "handheld_rod">>}, {<<"item", "/", "fishing_rod">>},
           CmdOv({NoState, [cast |-> 1]}, Models) \cup CmdOv({[cast |-> 0]}, {ModelA})
               \cup OwnOv({[cast |-> 1]}),
           MaxOverrides)

DamagedAt25 == [damaged |-> 1, damage |-> 25]

DamagedAt50 == [damaged |-> 1, damage |-> 50]

DamageDocs ==
    DocsOf({InDir(Json(<<"sword">>)), InDir(Json(<<"potion">>))}, {<<"item", "/", "handheld">>},
           {<<"item", "/", "sword">>, <<"item", "/", "splash_potion_overlay">>, <<>>},
           CmdOv({NoState}, Models) \cup CmdOv({DamagedAt25}, {ModelA})
               \cup CmdOv({DamagedAt50}, {BareModel})
               \cup OwnOv({DamagedAt25, DamagedAt50})
               \cup {[predicate |-> DamagedAt25, model |-> <<"custom", ":", "worn">>]},
           MaxOverrides)

PlainDocs ==
    DocsOf({InDir(Json(<<"sword">>)), InDir(Json(<<"chest">>)), InDir(Json(<<"trapped_chest">>)),
            InDir(Json(<<"potion">>)), InDir(Json(<<"dragon_head">>))},
           {<<>>, <<"item", "/", "generated">>}, {<<"item", "/", "sword">>},
           CmdOv({NoState}, Models) \cup CmdOv({Pulling}, {ModelA}) \cup NoPredicateOv
               \cup OwnOv({DamagedAt25}),
           MaxOverrides)

(* documents whose file name and content point at different archetypes *)
CrossDocs ==
    DocsOf({InDir(Json(<<"bow">>)), InDir(Json(<<"chest">>)), InDir(Json(<<"potion">>)),
            InDir(Json(<<"fishing_rod">>)), InDir(Json(<<"cross", "bow">>))},
           {<<"builtin", "/", "entity">>}, {<<>>},
           CmdOv({NoState, [blocking |-> 1]}, {ModelA}),
           MaxOverrides)

CrossRodDocs ==
    DocsOf({InDir(Json(<<"shield">>))},
           {<<"item", "/", "handheld_rod">>}, {<<>>},
           CmdOv({NoState, [cast |-> 1]}, {ModelA}),
           MaxOverrides)

(* model paths whose text holds the words bow and crossbow *)
RainbowModel == <<"custom", ":", "rain", "bow">>

CrossbowBoltModel == <<"custom", ":", "cross", "bow", "_bolt">>

(* sword and shield documents whose groups have such base models, or the
   model "sword" that has neither namespace nor directory, and damage states *)
NamedModelDocs ==
    DocsOf({InDir(Json(<<"sword">>)), InDir(Json(<<"shield">>))}, {<<"item", "/", "handheld">>},
           {<<"item", "/", "sword">>},
           CmdOv({NoState}, {ModelA, RainbowModel, CrossbowBoltModel, <<"sword">>})
               \cup CmdOv({DamagedAt25}, {ModelB}),
           MaxOverrides)

(* the three potion files and the seven head and skull files, with and without
   a parent, with the overlay textures, with overrides of every classification *)
KindDocs ==
    DocsOf({InDir(Json(<<"potion">>)), InDir(Json(<<"splash_potion">>)),
            InDir(Json(<<"lingering_potion">>)), InDir(Json(<<"player_head">>)),
            InDir(Json(<<"piglin_head">>)), InDir(Json(<<"zombie_head">>)),
            InDir(Json(<<"creeper_head">>)), InDir(Json(<<"dragon_head">>)),
            InDir(Json(<<"wither_skeleton_skull">>)), InDir(Json(<<"skeleton_skull">>))},
           {<<>>, <<"builtin", "/", "entity">>},
           {<<>>, <<"item", "/", "splash_potion_overlay">>,
            <<"item", "/", "lingering_potion_overlay">>},
           CmdOv({NoState}, {ModelA}) \cup CmdOv({[blocking |-> 1]}, {ModelB})
               \cup OwnOv({DamagedAt25}),
           MaxOverrides)

Docs ==
    <<BowDocs, CrossbowDocs, ShieldDocs, RodDocs, DamageDocs, PlainDocs, CrossDocs,
      CrossRodDocs, NamedModelDocs, KindDocs>>

NoDoc ==
    [path |-> <<>>, parent |-> <<>>, layer0 |-> <<>>, hasOverrides |-> FALSE,
     overrides |-> <<>>, hasDisplay |-> FALSE, display |-> "display"]

(* no file has gone through process_directory yet *)
NotProcessed == [mode |-> "none", should_convert |-> FALSE, status |-> "none", file |-> "none"]

(* ------------------------------ actions ------------------------------- *)

Init ==
    /\ doc = NoDoc
    /\ pc = "idle"
    /\ out = Raised("not called")
    /\ files = NoFiles
    /\ cls = Raised("not called")
    /\ firstDoc = NoDoc
    /\ firstCls = Raised("not called")
    /\ pipe = NotProcessed
    /\ run = [mode |-> "none", input |-> <<>>, output |-> <<>>, handled |-> <<>>, next |-> 0,
              completed |-> 0, total |-> 0, processed_files |-> <<>>, errors |-> <<>>]
    /\ gui = [processing |-> FALSE, buttons |-> "enabled", after |-> 0, listed |-> FALSE,
              workers |-> <<>>, temp_dir |-> "exists", closed |-> FALSE]

(* json.load of one input file: the document and the path it was read from;
   a display is a dict with entries ("display") or the empty dict ("{}") *)
LoadDocument ==
    /\ pc = "idle"
    /\ \E i \in 1..Len(Docs) :
        \E p \in Docs[i].paths, par \in Docs[i].parents, l \in Docs[i].layer0s :
            \/ \E k \in 0..Docs[i].n : \E o \in [1..k -> Docs[i].ovs] :
                    \/ doc' = Document(p, par, l, TRUE, o, FALSE)
                    \/ /\ k <= MaxDisplayed
                       /\ \E v \in {"display", "{}"} :
                            doc' = [Document(p, par, l, TRUE, o, TRUE) EXCEPT !.display = v]
            \/ \E dsp \in BOOLEAN : doc' = Document(p, par, l, FALSE, <<>>, dsp)
    /\ pc' = "loaded"
    /\ UNCHANGED <<out, files, cls, firstDoc, firstCls, pipe, run, gui>>

(* convert_json_format(json_data, False, file_path) on the loaded document *)
ConvertInPlace ==
    /\ pc = "loaded"
    /\ out' = convert_json_format(doc, FALSE)
    /\ pc' = "inplace"
    /\ UNCHANGED <<doc, files, cls, firstDoc, firstCls, pipe, run, gui>>

(* convert_item_model_format(json_data, output_path, input_path) on the loaded document *)
ConvertItemModel ==
    /\ pc = "loaded"
    /\ files' = convert_item_model_format(doc)
    /\ pc' = "item_model"
    /\ UNCHANGED <<doc, out, cls, firstDoc, firstCls, pipe, run, gui>>

Next == LoadDocument \/ ConvertInPlace \/ ConvertItemModel

Spec == Init /\ [][Next]_vars

(* ---------------- conversions one after the other -------------------- *)

(* file paths as process_directory may hand them over: upper case, another
   or no extension, no directory, and the default "" of the parameter *)
ClassifyPaths ==
    {InDir(Json(<<"bow">>)), InDir(<<"BOW", ".JSON">>), InDir(<<"bow">>), <<"bow", ".txt">>,
     InDir(<<"SHIELD", ".JSON">>), InDir(Json(<<"sword">>)), InDir(Json(<<"potion">>)),
     InDir(Json(<<"chest">>)), <<>>}

ClassifyOverrides ==
    NoPredicateOv
    \cup {[predicate |-> [custom_model_data |-> 1, blocking |-> 1], model |-> ModelA],
          [predicate |-> [custom_model_data |-> 1, cast |-> 1], model |-> ModelA],
          [predicate |-> [custom_model_data |-> 1] @@ DamagedAt25, model |-> ModelA]}
    \cup OwnOv({DamagedAt25})

ClassifyDocs ==
    DocsOf(ClassifyPaths,
           {<<>>, <<"builtin", "/", "entity">>, <<"item", "/", "handheld_rod">>},
           {<<>>, <<"item", "/", "sword">>}, ClassifyOverrides, MaxOverrides)

(* the documents converted between two conversions of the same document *)
OtherDocs ==
    {Document(InDir(Json(<<"shield">>)), <<"builtin", "/", "entity">>, <<>>, TRUE,
              <<[predicate |-> [custom_model_data |-> 1, blocking |-> 1], model |-> ModelB]>>,
              FALSE),
     Document(InDir(Json(<<"fishing_rod">>)), <<"item", "/", "handheld_rod">>, <<>>, TRUE,
              <<[predicate |-> [custom_model_data |-> 2, cast |-> 1], model |-> ModelB]>>,
              FALSE),
     Document(InDir(Json(<<"cross", "bow">>)), <<>>, <<"item", "/", "cross", "bow">>, TRUE,
              <<[predicate |-> [custom_model_data |-> 1, pulling |-> 1], model |-> ModelB]>>,
              FALSE),
     Document(InDir(Json(<<"sword">>)), <<>>, <<"item", "/", "sword">>, TRUE,
              <<[predicate |-> DamagedAt50, model |-> OwnModel]>>, FALSE),
     Document(InDir(Json(<<"dragon_head">>)), <<>>, <<>>, FALSE, <<>>, TRUE)}

(* json.load of the file whose conversion is replayed later *)
LoadForClassify ==
    /\ pc = "idle"
    /\ \E p \in ClassifyDocs.paths, par \in ClassifyDocs.parents, l \in ClassifyDocs.layer0s :
            \/ \E k \in 0..ClassifyDocs.n : \E o \in [1..k -> ClassifyDocs.ovs] :
                    doc' = Document(p, par, l, TRUE, o, FALSE)
            \/ \E dsp \in BOOLEAN : doc' = Document(p, par, l, FALSE, <<>>, dsp)
    /\ pc' = "to_classify"
    /\ UNCHANGED <<out, files, cls, firstDoc, firstCls, pipe, run, gui>>

(* the conversion of one document: its classification tests, then its builders *)
ConvertClassified(d) ==
    IF Classification(d).exc # "none" THEN Raised(Classification(d).exc)
    ELSE convert_json_format(d, FALSE)

(* first conversion of the loaded document; its classification is kept *)
Classify ==
    /\ pc = "to_classify"
    /\ cls' = Classification(doc)
    /\ out' = ConvertClassified(doc)
    /\ firstDoc' = doc
    /\ firstCls' = Classification(doc)
    /\ pc' = "classified"
    /\ UNCHANGED <<doc, files, pipe, run, gui>>

(* process_directory goes on to another file: load, classify, convert *)
ConvertOther ==
    /\ pc = "classified"
    /\ \E d \in OtherDocs :
        /\ doc' = d
        /\ cls' = Classification(d)
        /\ out' = ConvertClassified(d)
    /\ pc' = "other"
    /\ UNCHANGED <<files, firstDoc, firstCls, pipe, run, gui>>

(* the first document, read from the same path and converted once more *)
ClassifyAgain ==
    /\ pc \in {"classified", "other"}
    /\ doc' = firstDoc
    /\ cls' = Classification(firstDoc)
    /\ out' = ConvertClassified(firstDoc)
    /\ pc' = "replayed"
    /\ UNCHANGED <<files, firstDoc, firstCls, pipe, run, gui>>

NextClassify == LoadForClassify \/ Classify \/ ConvertOther \/ ClassifyAgain

SpecClassify == Init /\ [][NextClassify]_vars

(* ------------------- process_directory, file by file ------------------ *)

(* any("custom_model_data" in o.get("predicate", {}) for o in overrides),
   guarded by "overrides" in json_data *)
HasCustomModelData(d) ==
    /\ d.hasOverrides
    /\ AnyOverride(d, LAMBDA o : "custom_model_data" \in DOMAIN PredicateOf(o))

Modes == {"cmd", "damage", "item_model"}

(* should_convert with the custom_model_data test in every mode *)
should_convert_any_mode(mode, d) == HasCustomModelData(d)

(* should_convert of process_directory: False unless the mode sets it *)
should_convert(mode, d) ==
    IF mode = "damage" THEN is_damage_model(d)
    ELSE IF mode = "cmd" THEN HasCustomModelData(d)
    ELSE FALSE

(* the conversion process_directory runs on a file it converts *)
ConvertForMode(mode, d) ==
    IF mode = "damage" THEN Returned(convert_damage_model(d, <<>>))
    ELSE convert_json_format(d, mode = "item_model")

(* one turn of the loop over json_files: the file is there as a copy of the
   input; it is overwritten when should_convert holds and the conversion
   returns, and an exception leaves the copy and no processed_files entry *)
ProcessDirectoryFile ==
    /\ pc = "loaded"
    /\ \E mode \in Modes :
        IF should_convert(mode, doc)
        THEN /\ out' = ConvertForMode(mode, doc)
             /\ pipe' = [mode |-> mode, should_convert |-> TRUE,
                         status |-> IF out'.exc = "none" THEN "converted" ELSE "error",
                         file |-> IF out'.exc = "none" THEN "converted" ELSE "copied input"]
        ELSE /\ out' = out
             /\ pipe' = [mode |-> mode, should_convert |-> FALSE,
                         status |-> "copied", file |-> "copied input"]
    /\ pc' = "processed"
    /\ UNCHANGED <<doc, files, cls, firstDoc, firstCls, run, gui>>

(* needs_conversion of process_directory_item_model *)
needs_conversion(d) == HasCustomModelData(d)

(* one turn of the loop of process_directory_item_model: the copy is moved
   to dst_path, the file's own name in the items directory; a file that
   needs conversion is converted into the files of its groups, written
   under the items directory, and os.remove(dst_path) follows *)
ProcessItemModelFile ==
    /\ pc = "loaded"
    /\ IF needs_conversion(doc)
       THEN /\ files' = LET written == convert_item_model_format(doc) IN
                        [f \in DOMAIN written \ {Basename(doc.path)} |-> written[f]]
            /\ pipe' = [mode |-> "item", should_convert |-> TRUE,
                        status |-> "converted", file |-> "removed"]
       ELSE /\ files' = files
            /\ pipe' = [mode |-> "item", should_convert |-> FALSE,
                        status |-> "copied", file |-> "copied input"]
    /\ pc' = "processed"
    /\ UNCHANGED <<doc, out, cls, firstDoc, firstCls, run, gui>>

(* convert_json_format(json_data, True, json_file): the call that
   process_directory holds for mode "item_model" *)
ConvertWithItemModelFlag ==
    /\ pc = "loaded"
    /\ out' = convert_json_format(doc, TRUE)
    /\ pc' = "item_model_flag"
    /\ UNCHANGED <<doc, files, cls, firstDoc, firstCls, pipe, run, gui>>

NextPipeline ==
    LoadDocument \/ ProcessDirectoryFile \/ ProcessItemModelFile \/ ConvertWithItemModelFlag

SpecPipeline == Init /\ [][NextPipeline]_vars

(* --------------- process_directory over a whole directory ------------- *)

(* the JSON files of models/item: one that is no JSON, one without
   overrides, one with custom_model_data, one with a damage state of its
   own, and one whose override with custom_model_data has no model key *)
DirectoryFiles ==
    {[valid |-> FALSE, hasOverrides |-> FALSE, overrides |-> <<>>],
     [valid |-> TRUE, hasOverrides |-> FALSE, overrides |-> <<>>],
     [valid |-> TRUE, hasOverrides |-> TRUE,
      overrides |-> <<[predicate |-> [custom_model_data |-> 1], model |-> ModelA]>>],
     [valid |-> TRUE, hasOverrides |-> TRUE,
      overrides |-> <<[predicate |-> DamagedAt25, model |-> OwnModel]>>],
     [valid |-> TRUE, hasOverrides |-> TRUE,
      overrides |-> <<[predicate |-> [custom_model_data |-> 1]]>>]}

(* the output file opened for writing before the conversion has returned *)
ProcessedFile_opened_first(mode, c) ==
    IF ~c.valid
    THEN [exc |-> "JSONDecodeError", status |-> "none", output |-> [kind |-> "copied input"]]
    ELSE IF ~should_convert(mode, c.json_data)
    THEN [exc |-> "none", status |-> "copied", output |-> [kind |-> "copied input"]]
    ELSE IF \E k \in 1..Len(c.json_data.overrides) : "model" \notin DOMAIN c.json_data.overrides[k]
    THEN [exc |-> "KeyError", status |-> "none", output |-> [kind |-> "truncated"]]
    ELSE [exc |-> "none", status |-> "converted",
          output |-> [kind |-> "converted", json |-> ConvertForMode(mode, c.json_data).json]]

(* the body of the try statement of process_directory on one file: the
   exception it ends with, the processed_files status and the output file.
   override["model"] of an override without that key raises KeyError. *)
ProcessedFile(mode, c) ==
    IF ~c.valid
    THEN [exc |-> "JSONDecodeError", status |-> "none", output |-> [kind |-> "copied input"]]
    ELSE IF ~should_convert(mode, c.json_data)
    THEN [exc |-> "none", status |-> "copied", output |-> [kind |-> "copied input"]]
    ELSE IF \E k \in 1..Len(c.json_data.overrides) : "model" \notin DOMAIN c.json_data.overrides[k]
    THEN [exc |-> "KeyError", status |-> "none", output |-> [kind |-> "copied input"]]
    ELSE LET converted_data == ConvertForMode(mode, c.json_data) IN
         IF converted_data.exc # "none"
         THEN [exc |-> converted_data.exc, status |-> "none",
               output |-> [kind |-> "copied input"]]
         ELSE [exc |-> "none", status |-> "converted",
               output |-> [kind |-> "converted", json |-> converted_data.json]]

(* the body of the try statement of process_directory_item_model on one
   file: the file is moved to the items directory, and one that needs
   conversion is replaced by the files of its groups *)
MovedFile(c) ==
    IF ~c.valid
    THEN [exc |-> "JSONDecodeError", status |-> "Error: Invalid JSON",
          output |-> [kind |-> "moved input"]]
    ELSE IF ~needs_conversion(c.json_data)
    THEN [exc |-> "none", status |-> "copied", output |-> [kind |-> "moved input"]]
    ELSE LET written == convert_item_model_format(c.json_data) IN
         [exc |-> "none", status |-> "converted",
          output |-> [kind |-> "removed",
                      files |-> [f \in DOMAIN written \ {Basename(c.json_data.path)} |->
                                    written[f]]]]

(* the progress counter advanced only for a file that did not fail *)
AfterTurn_skip_failed(r, i) ==
    [run EXCEPT !.output[i] = r.output,
                !.handled[i] = @ + 1,
                !.next = @ + 1,
                !.completed = IF r.exc = "none" THEN @ + 1 ELSE @,
                !.processed_files = IF r.status = "none" THEN @
                                    ELSE Append(@, [file |-> i, status |-> r.status]),
                !.errors = IF r.exc = "none" THEN @ ELSE Append(@, i)]

(* the end of one turn of either loop: the except clauses print the error,
   then progress.update(task, advance=1) and the next file *)
AfterTurn(r, i) ==
    [run EXCEPT !.output[i] = r.output,
                !.handled[i] = @ + 1,
                !.next = @ + 1,
                !.completed = @ + 1,
                !.processed_files = IF r.status = "none" THEN @
                                    ELSE Append(@, [file |-> i, status |-> r.status]),
                !.errors = IF r.exc = "none" THEN @ ELSE Append(@, i)]

(* the first pass has copied every file; json_files is listed, each file
   with what json.load makes of it; the task of the progress bar gets
   total = len(json_files).  Mode "item" stands for
   process_directory_item_model, the other modes for process_directory. *)
StartDirectory ==
    /\ pc = "idle"
    /\ \E mode \in Modes \cup {"item"}, n \in 0..MaxFiles :
        \E input \in [1..n -> DirectoryFiles] :
            run' = [mode |-> mode,
                    input |-> [i \in 1..n |->
                        [valid |-> input[i].valid,
                         json_data |->
                            Document(InDir(Json(<<<<"sword", "axe", "pickaxe", "hoe", "shovel">>[i]>>)),
                                     <<"item", "/", "generated">>, <<>>,
                                     input[i].hasOverrides, input[i].overrides, FALSE)]],
                    output |-> [i \in 1..n |-> [kind |-> "copied input"]],
                    handled |-> [i \in 1..n |-> 0],
                    next |-> 0, completed |-> 0, total |-> n,
                    processed_files |-> <<>>, errors |-> <<>>]
    /\ pc' = "directory"
    /\ UNCHANGED <<doc, out, files, cls, firstDoc, firstCls, pipe, gui>>

(* one turn of "for json_file in json_files" of process_directory *)
ProcessDirectoryTurn ==
    /\ pc = "directory"
    /\ run.mode \in Modes
    /\ run.next < Len(run.input)
    /\ run' = AfterTurn(ProcessedFile(run.mode, run.input[run.next + 1]), run.next + 1)
    /\ UNCHANGED <<doc, pc, out, files, cls, firstDoc, firstCls, pipe, gui>>

(* one turn of "for file in direct_json_files" of process_directory_item_model *)
ProcessItemModelTurn ==
    /\ pc = "directory"
    /\ run.mode = "item"
    /\ run.next < Len(run.input)
    /\ run' = AfterTurn(MovedFile(run.input[run.next + 1]), run.next + 1)
    /\ UNCHANGED <<doc, pc, out, files, cls, firstDoc, firstCls, pipe, gui>>

(* the loop has taken every file: return processed_files *)
ReturnProcessedFiles ==
    /\ pc = "directory"
    /\ run.next = Len(run.input)
    /\ pc' = "returned"
    /\ UNCHANGED <<doc, out, files, cls, firstDoc, firstCls, pipe, run, gui>>

NextDirectory ==
    StartDirectory \/ ProcessDirectoryTurn \/ ProcessItemModelTurn \/ ReturnProcessedFiles

(* the loops run in one thread that nothing stops: every enabled turn is
   taken.  The weak fairness of the two turns is written by its definition,
   []<>~ENABLED <<A>>_vars \/ []<><<A>>_vars, with the guard of the turn for
   ENABLED <<A>>_vars: a turn always advances run.next. *)
SpecDirectory ==
    /\ Init
    /\ [][NextDirectory]_vars
    /\ \/ []<>~(pc = "directory" /\ run.mode \in Modes /\ run.next < Len(run.input))
       \/ []<><<ProcessDirectoryTurn>>_vars
    /\ \/ []<>~(pc = "directory" /\ run.mode = "item" /\ run.next < Len(run.input))
       \/ []<><<ProcessItemModelTurn>>_vars
    /\ WF_vars(ReturnProcessedFiles)

(* ------------------ the window and its worker threads ----------------- *)

(* choose_folder and choose_zip, the commands of two buttons: nothing when
   processing is set or the dialog is cancelled, else the flag is set, the
   buttons are disabled and a thread runs process_files_async *)
ChooseInput ==
    /\ ~gui.closed
    /\ gui.buttons = "enabled"
    /\ Len(gui.workers) < MaxWorkers
    /\ \E chosen \in BOOLEAN :
        gui' = IF gui.processing \/ ~chosen THEN gui
               ELSE [gui EXCEPT !.processing = TRUE,
                                !.buttons = "disabled",
                                !.workers = Append(@, [target |-> "process_files_async",
                                                       at |-> "try", raised |-> FALSE])]
    /\ UNCHANGED <<doc, pc, out, files, cls, firstDoc, firstCls, pipe, run>>

(* start_conversion, the command of the convert button *)
StartConversion ==
    /\ ~gui.closed
    /\ gui.buttons = "enabled"
    /\ Len(gui.workers) < MaxWorkers
    /\ gui' = IF ~gui.listed \/ gui.processing THEN gui
              ELSE [gui EXCEPT !.processing = TRUE,
                               !.buttons = "disabled",
                               !.workers = Append(@, [target |-> "convert_files",
                                                      at |-> "try", raised |-> FALSE])]
    /\ UNCHANGED <<doc, pc, out, files, cls, firstDoc, firstCls, pipe, run>>

(* a worker without a finally clause: an exception ends the thread at once *)
WorkerStep_no_finally(w) ==
    /\ w \in DOMAIN gui.workers
    /\ LET worker == gui.workers[w] IN
        \/ /\ worker.at = "try"
           /\ \E raised \in {gui.temp_dir = "removed", TRUE} :
                gui' = [gui EXCEPT !.workers[w].at = IF raised THEN "ended" ELSE "finally",
                                   !.workers[w].raised = raised,
                                   !.listed = IF worker.target = "process_files_async" /\ ~raised
                                              THEN TRUE ELSE @]
        \/ /\ worker.at = "finally"
           /\ gui' = [gui EXCEPT !.processing = FALSE, !.workers[w].at = "reset"]
        \/ /\ worker.at = "reset"
           /\ gui' = IF gui.closed THEN [gui EXCEPT !.workers[w].at = "ended"]
                     ELSE [gui EXCEPT !.after = @ + 1,
                                      !.workers[w].at = IF worker.target = "convert_files"
                                                        THEN "scheduled" ELSE "ended"]
        \/ /\ worker.at = "scheduled"
           /\ gui' = [gui EXCEPT !.workers[w].at = "ended"]
    /\ UNCHANGED <<doc, pc, out, files, cls, firstDoc, firstCls, pipe, run>>

(* one step of the thread w.  try: the work in temp_dir returns or raises
   (it raises when temp_dir is gone), and process_files_async that returns
   has filled the file list.  finally: self.processing = False; then
   self.after(0, self.set_buttons_state, '!disabled'), a call into Tk that
   raises once the main loop has ended; then, in convert_files only,
   shutil.rmtree(temp_output_dir). *)
WorkerStep(w) ==
    /\ w \in DOMAIN gui.workers
    /\ LET worker == gui.workers[w] IN
        \/ /\ worker.at = "try"
           /\ \E raised \in {gui.temp_dir = "removed", TRUE} :
                gui' = [gui EXCEPT !.workers[w].at = "finally",
                                   !.workers[w].raised = raised,
                                   !.listed = IF worker.target = "process_files_async" /\ ~raised
                                              THEN TRUE ELSE @]
        \/ /\ worker.at = "finally"
           /\ gui' = [gui EXCEPT !.processing = FALSE, !.workers[w].at = "reset"]
        \/ /\ worker.at = "reset"
           /\ gui' = IF gui.closed THEN [gui EXCEPT !.workers[w].at = "ended"]
                     ELSE [gui EXCEPT !.after = @ + 1,
                                      !.workers[w].at = IF worker.target = "convert_files"
                                                        THEN "scheduled" ELSE "ended"]
        \/ /\ worker.at = "scheduled"
           /\ gui' = [gui EXCEPT !.workers[w].at = "ended"]
    /\ UNCHANGED <<doc, pc, out, files, cls, firstDoc, firstCls, pipe, run>>

(* the main loop runs a scheduled set_buttons_state('!disabled') *)
RunAfter ==
    /\ ~gui.closed
    /\ gui.after > 0
    /\ gui' = [gui EXCEPT !.buttons = "enabled", !.after = @ - 1]
    /\ UNCHANGED <<doc, pc, out, files, cls, firstDoc, firstCls, pipe, run>>

(* on_closing, the handler of WM_DELETE_WINDOW: the dialog is answered; on
   OK temp_dir is removed and the main loop ends, whatever processing is *)
OnClosing ==
    /\ ~gui.closed
    /\ \E response \in BOOLEAN :
        gui' = IF response THEN [gui EXCEPT !.temp_dir = "removed", !.closed = TRUE] ELSE gui
    /\ UNCHANGED <<doc, pc, out, files, cls, firstDoc, firstCls, pipe, run>>

NextGui ==
    \/ ChooseInput
    \/ StartConversion
    \/ \E w \in 1..MaxWorkers : WorkerStep(w)
    \/ RunAfter
    \/ OnClosing

(* every thread keeps running and the main loop keeps taking its callbacks *)
SpecGui ==
    /\ Init
    /\ [][NextGui]_vars
    /\ \A w \in 1..MaxWorkers : WF_vars(WorkerStep(w))
    /\ WF_vars(RunAfter)

(* ------------- conversion of a converted document's base -------------- *)

(* base texture paths: bare, item/, minecraft:, minecraft:item/, another
   namespace, another directory; plain names and the crossbow_standby alias *)
TexturePaths ==
    LET prefixes == {<<>>, ItemDir, MinecraftNs, MinecraftItem, <<"custom", ":">>,
                     <<"minecraft", ":", "block", "/">>}
        names == {<<"sword">>, <<"cross", "bow", "_standby">>, <<"cross", "bow">>,
                  <<"bow", "_pulling_0">>, <<"fishing_rod">>}
    IN {pre \o name : pre \in prefixes, name \in names}

(* json.load of a document that has a textures.layer0 and no parent *)
LoadTexture ==
    /\ pc = "idle"
    /\ \E p \in TexturePaths, dsp \in BOOLEAN :
        doc' = Document(InDir(Json(<<"sword">>)), <<>>, p, FALSE, <<>>, dsp)
    /\ pc' = "texture"
    /\ UNCHANGED <<out, files, cls, firstDoc, firstCls, pipe, run, gui>>

(* convert_json_format on it: the fallback model is the normalised base path *)
NormalizeTexture ==
    /\ pc = "texture"
    /\ out' = convert_json_format(doc, FALSE)
    /\ pc' = "normalized"
    /\ UNCHANGED <<doc, files, cls, firstDoc, firstCls, pipe, run, gui>>

(* convert_json_format on the document whose textures.layer0 is that fallback model *)
NormalizeAgain ==
    /\ pc = "normalized"
    /\ out.exc = "none"
    /\ doc' = [doc EXCEPT !.layer0 = out.json.model.fallback.model]
    /\ out' = convert_json_format(doc', FALSE)
    /\ pc' = "renormalized"
    /\ UNCHANGED <<files, cls, firstDoc, firstCls, pipe, run, gui>>

NextNormalize == LoadTexture \/ NormalizeTexture \/ NormalizeAgain

SpecNormalize == Init /\ [][NextNormalize]_vars

(* ------------------------ reading the outputs ------------------------- *)

InPlaceDone == pc = "inplace" /\ out.exc = "none"

(* the top-level entries of a range_dispatch(custom_model_data) output *)
TopEntries ==
    IF InPlaceDone /\ out.json.model.property = "custom_model_data"
    THEN out.json.model.entries
    ELSE <<>>

Thresholds == {TopEntries[i].threshold : i \in 1..Len(TopEntries)}

EntriesAt(c) == SelectSeq(TopEntries, LAMBDA e : e.threshold = c)

InputCmds == CmdKeys(doc)

GroupOf(c) == SelectSeq(CmdOverrides(doc), LAMBDA o : o.predicate.custom_model_data = c)

SpecialKeys == {"pulling", "charged", "blocking", "cast", "damage"}

IsBaseOverride(o) == DOMAIN o.predicate \cap SpecialKeys = {}

HasBaseOverride(c) == \E i \in 1..Len(GroupOf(c)) : IsBaseOverride(GroupOf(c)[i])

HasOverrideWith(c, Test(_)) == \E i \in 1..Len(GroupOf(c)) : Test(GroupOf(c)[i])

(* which builder made the output: the early returns, then the entries chain *)
IsMixed == has_mixed_custom_damage(doc)

IsDamageOnly == ~IsMixed /\ is_damage_model(doc)

BuiltBy(kind) == ~IsMixed /\ ~IsDamageOnly /\ EntriesKind(doc) = kind

(* ------------------------------- C1 ----------------------------------- *)

(* C1, as stated: in every in-place output the thresholds of the top-level
   custom_model_data entries are custom_model_data values of the input, and
   an input value is missing from the entries exactly when its group has no
   base override (no pulling, charged, blocking, cast or damage key). *)
C1_DroppedIffNoBase ==
    InPlaceDone =>
        /\ Thresholds \subseteq InputCmds
        /\ \A c \in InputCmds : (c \notin Thresholds) <=> ~HasBaseOverride(c)

(* C1, amended: the thresholds are custom_model_data values of the input;
   a DamageOnly output has no custom_model_data entry; the shield builder
   drops a value exactly when no override of its group lacks the blocking
   key; the fishing rod builder drops it exactly when the group lacks an
   override with cast = 1 or lacks one with cast other than 1; every other
   builder (mixed, bow, crossbow, chest, plain) keeps every input value,
   with or without a base override. *)
C1_DropRuleByBuilder ==
    InPlaceDone =>
        /\ Thresholds \subseteq InputCmds
        /\ IsDamageOnly => Thresholds = {}
        /\ BuiltBy("shield") =>
            \A c \in InputCmds :
                c \in Thresholds
                    <=> HasOverrideWith(c, LAMBDA o : "blocking" \notin DOMAIN o.predicate)
        /\ BuiltBy("fishing_rod") =>
            \A c \in InputCmds :
                c \in Thresholds
                    <=> /\ HasOverrideWith(c, LAMBDA o : Get(o.predicate, "cast", 0) = 1)
                        /\ HasOverrideWith(c, LAMBDA o : Get(o.predicate, "cast", 0) # 1)
        /\ (IsMixed \/ BuiltBy("bow") \/ BuiltBy("crossbow") \/ BuiltBy("chest")
                \/ BuiltBy("plain"))
            => Thresholds = InputCmds

(* a shield output from which one input value was dropped and one was kept *)
C1_Witness ==
    /\ InPlaceDone
    /\ BuiltBy("shield")
    /\ \E c \in InputCmds : c \notin Thresholds
    /\ Thresholds # {}

(* ------------------------------- C2 ----------------------------------- *)

(* the archetype whose shape an output node has *)
ShapeOf(node) ==
    IF node.type = "minecraft:condition"
    THEN IF node.property = "minecraft:fishing_rod/cast" THEN "fishing_rod"
         ELSE IF node.on_true.type = "minecraft:range_dispatch"
         THEN IF node.on_true.property = "minecraft:use_duration" THEN "bow" ELSE "crossbow"
         ELSE "shield"
    ELSE IF node.type = "minecraft:special"
    THEN IF node.model.type = "minecraft:head" THEN "head" ELSE "chest"
    ELSE IF node.type = "minecraft:select" THEN "chest"
    ELSE IF "tints" \in DOMAIN node THEN "potion"
    ELSE "plain"

FileNameTable ==
    (Json(<<"bow">>) :> "bow") @@ (Json(<<"cross", "bow">>) :> "crossbow")
    @@ (Json(<<"shield">>) :> "shield") @@ (Json(<<"fishing_rod">>) :> "fishing_rod")
    @@ (Json(<<"chest">>) :> "chest") @@ (Json(<<"trapped_chest">>) :> "chest")
    @@ [n \in potion_files |-> "potion"] @@ [n \in DOMAIN head_mappings |-> "head"]

(* the first-match-wins order after the two damage archetypes: the exact
   file name, then the content (parent and predicate keys), then plain *)
ArchetypeByOrder(d) ==
    LET n == Lower(Basename(d.path)) IN
    IF n \in DOMAIN FileNameTable THEN FileNameTable[n]
    ELSE IF d.parent = <<"builtin", "/", "entity">>
            /\ AnyOverride(d, LAMBDA o : "blocking" \in DOMAIN PredicateOf(o))
    THEN "shield"
    ELSE IF d.parent = <<"item", "/", "handheld_rod">>
            /\ AnyOverride(d, LAMBDA o : "cast" \in DOMAIN PredicateOf(o))
    THEN "fishing_rod"
    ELSE IF SplitextRoot(n) = <<"bow">> THEN "bow"
    ELSE IF SplitextRoot(n) = <<"cross", "bow">> THEN "crossbow"
    ELSE "plain"

(* heads and potions have no entry shape of their own: their entries are plain *)
EntryShapeOf(archetype) == IF archetype \in {"head", "potion"} THEN "plain" ELSE archetype

(* C2: an in-place output that is neither MixedCmdDamage nor DamageOnly has
   a fallback of the shape of the one archetype that the first-match-wins
   order selects for the document, and every top-level entry has the entry
   shape of that same archetype. *)
C2_OneArchetype ==
    (InPlaceDone /\ ~IsMixed /\ ~IsDamageOnly) =>
        /\ ShapeOf(out.json.model.fallback) = ArchetypeByOrder(doc)
        /\ \A i \in 1..Len(TopEntries) :
            ShapeOf(TopEntries[i].model) = EntryShapeOf(ArchetypeByOrder(doc))

(* ------------------------------- C3 ----------------------------------- *)

Classified == pc \in {"classified", "other", "replayed"}

ClassificationFlags ==
    {"has_mixed_custom_damage", "is_damage_model", "is_potion", "is_chest", "is_head",
     "is_shield", "is_fishing_rod", "is_bow", "is_crossbow"}

FallbackKinds ==
    {"shield", "head", "chest", "potion", "fishing_rod", "bow", "crossbow", "plain"}

EntriesKinds == {"crossbow", "bow", "chest", "shield", "fishing_rod", "plain"}

(* C3: the classification tests of every conversion return without raising,
   for documents with or without overrides, parent and textures, overrides
   without a predicate and any file path; each test answers yes or no and
   each chain takes exactly one branch; when no test matches the document is
   plain in both chains; and a document converted again, directly or after
   other documents, is classified as it was the first time. *)
C3_TotalDeterministic ==
    /\ Classified =>
        /\ cls.exc = "none"
        /\ \A f \in ClassificationFlags : cls[f] \in BOOLEAN
        /\ cls.fallback \in FallbackKinds
        /\ cls.entries \in EntriesKinds
        /\ (\A f \in ClassificationFlags : ~cls[f])
            => (cls.fallback = "plain" /\ cls.entries = "plain")
    /\ pc = "replayed" => cls = firstCls

(* a document with an override that has no predicate, under an upper case
   file name, classified a second time as a shield *)
C3_Witness ==
    /\ pc = "replayed"
    /\ cls.exc = "none"
    /\ cls.is_shield
    /\ cls = firstCls
    /\ Basename(doc.path) = <<"SHIELD", ".JSON">>
    /\ \E i \in 1..Len(doc.overrides) : "predicate" \notin DOMAIN doc.overrides[i]

(* ------------------------------- C4 ----------------------------------- *)

Last(s) == s[Len(s)]

IsBowDocument == Lower(Basename(doc.path)) = Json(<<"bow">>) /\ ~IsMixed /\ ~IsDamageOnly

PullingOf(c) == SelectSeq(GroupOf(c), LAMBDA o : "pulling" \in DOMAIN o.predicate)

NonPullingOf(c) == SelectSeq(GroupOf(c), LAMBDA o : "pulling" \notin DOMAIN o.predicate)

(* the pulling states of a group in ascending pull order, a missing pull being 0 *)
SortedPulls(c) == SortedBy(MapSeq(PullingOf(c), PullState), "pull")

IsUseDurationDispatch(node) ==
    /\ node.type = "minecraft:range_dispatch"
    /\ node.property = "minecraft:use_duration"
    /\ node.scale = UseDurationScale

(* C4, as stated: in the in-place output of a Bow document every group with
   a pulling override has an on_true range_dispatch(use_duration, 0.05)
   whose fallback is the model of the lowest pulling state and whose entries
   are the remaining pulling states in ascending pull order. *)
C4_FirstPullConsumed ==
    (InPlaceDone /\ IsBowDocument) =>
        \A c \in InputCmds : PullingOf(c) # <<>> =>
            /\ Len(EntriesAt(c)) = 1
            /\ LET on_true == EntriesAt(c)[1].model.on_true IN
                /\ IsUseDurationDispatch(on_true)
                /\ on_true.fallback = ModelNode("minecraft:model", SortedPulls(c)[1].model)
                /\ on_true.entries = PullEntries(Tail(SortedPulls(c)))

(* the model a bow group shows when it is not pulled: its last override
   without a pulling key, else its lowest pulling state *)
BowRestModel(c) ==
    IF NonPullingOf(c) # <<>> THEN Last(NonPullingOf(c)).model ELSE SortedPulls(c)[1].model

(* C4, amended: in the in-place output of a Bow document every group with a
   pulling override has an on_true range_dispatch(use_duration, 0.05) whose
   fallback is the entry's on_false model (the model of the group's last
   override without a pulling key, else of its lowest pulling state) and
   whose entries are all pulling states whose model differs from that
   model, in ascending pull order; no pulling state is consumed as the
   fallback. *)
C4_BaseIsPullFallback ==
    (InPlaceDone /\ IsBowDocument) =>
        \A c \in InputCmds : PullingOf(c) # <<>> =>
            /\ Len(EntriesAt(c)) = 1
            /\ LET on_true == EntriesAt(c)[1].model.on_true IN
                /\ IsUseDurationDispatch(on_true)
                /\ on_true.fallback = ModelNode("minecraft:model", BowRestModel(c))
                /\ on_true.fallback = EntriesAt(c)[1].model.on_false
                /\ on_true.entries =
                        PullEntries(SelectSeq(SortedPulls(c),
                                              LAMBDA s : s.model # BowRestModel(c)))

(* the example of the claim: a base override and one pulling override at
   0.65 of the same group; the pulling state is kept as an entry *)
C4_Witness ==
    /\ InPlaceDone
    /\ IsBowDocument
    /\ doc.overrides = <<[predicate |-> [custom_model_data |-> 1], model |-> ModelA],
                         [predicate |-> [custom_model_data |-> 1] @@ PullingAt65,
                          model |-> ModelB]>>
    /\ Len(TopEntries) = 1
    /\ TopEntries[1].model.on_true.fallback.model = ModelA
    /\ TopEntries[1].model.on_true.entries = <<Entry(BowPull1, ModelNode("minecraft:model", ModelB))>>

(* ------------------------------- C5 ----------------------------------- *)

IsCrossbowDocument ==
    Lower(Basename(doc.path)) = Json(<<"cross", "bow">>) /\ ~IsMixed /\ ~IsDamageOnly

(* the base overrides of a bow or crossbow group: no pulling, no charged key *)
BaseOverridesOf(c) ==
    SelectSeq(GroupOf(c), LAMBDA o : DOMAIN o.predicate \cap {"pulling", "charged"} = {})

(* the model an entry shows while the item is not in use *)
RestModel(entry) ==
    IF entry.model.on_false.type = "minecraft:select"
    THEN entry.model.on_false.fallback.model
    ELSE entry.model.on_false.model

(* C5: in the in-place output of a Bow or Crossbow document every group
   that has a base override gets an entry whose not-in-use model (bow:
   on_false.model; crossbow: the fallback of the on_false select) is the
   group's own base model, with or without pulling states in the group. *)
C5_BaseModelKept ==
    (InPlaceDone /\ (IsBowDocument \/ IsCrossbowDocument)) =>
        \A c \in InputCmds : BaseOverridesOf(c) # <<>> =>
            /\ EntriesAt(c) # <<>>
            /\ \A i \in 1..Len(EntriesAt(c)) :
                RestModel(EntriesAt(c)[i]) = Last(BaseOverridesOf(c)).model

(* ------------------------------- C6 ----------------------------------- *)

ArrowOf(c) ==
    SelectSeq(GroupOf(c), LAMBDA o : "charged" \in DOMAIN o.predicate
                                     /\ "firework" \notin DOMAIN o.predicate)

RocketOf(c) ==
    SelectSeq(GroupOf(c), LAMBDA o : "charged" \in DOMAIN o.predicate
                                     /\ "firework" \in DOMAIN o.predicate)

CaseOf(overrides, when) ==
    IF overrides = <<>> THEN <<>>
    ELSE <<[model |-> ModelNode("minecraft:model", Last(overrides).model), when |-> when]>>

(* C6: in the in-place output of a Crossbow document every group has one
   entry whose on_false select(charge_type) has the case "arrow" exactly
   when the group has a charged override without firework and the case
   "rocket" exactly when it has one with firework, in this order and with
   those overrides' models, and whose on_true range_dispatch(crossbow/pull)
   has as fallback the lowest pulling state, or the group's base when it
   has no pulling state, and as entries the remaining pulling states in
   ascending pull order. *)
C6_CrossbowEntry ==
    (InPlaceDone /\ IsCrossbowDocument) =>
        \A c \in InputCmds :
            /\ Len(EntriesAt(c)) = 1
            /\ LET on_false == EntriesAt(c)[1].model.on_false
                   on_true == EntriesAt(c)[1].model.on_true
               IN /\ on_false.type = "minecraft:select"
                  /\ on_false.property = "minecraft:charge_type"
                  /\ on_false.cases = CaseOf(ArrowOf(c), "arrow") \o CaseOf(RocketOf(c), "rocket")
                  /\ on_true.type = "minecraft:range_dispatch"
                  /\ on_true.property = "minecraft:crossbow/pull"
                  /\ SortedPulls(c) # <<>> =>
                        /\ on_true.fallback.model = SortedPulls(c)[1].model
                        /\ on_true.entries = PullEntries(Tail(SortedPulls(c)))
                  /\ (SortedPulls(c) = <<>> /\ BaseOverridesOf(c) # <<>>) =>
                        /\ on_true.fallback.model = Last(BaseOverridesOf(c)).model
                        /\ on_true.entries = <<>>

(* ------------------------------- C7 ----------------------------------- *)

NormalOf(c) == SelectSeq(GroupOf(c), LAMBDA o : Get(o.predicate, "cast", 0) # 1)

CastOf(c) == SelectSeq(GroupOf(c), LAMBDA o : Get(o.predicate, "cast", 0) = 1)

(* condition(fishing_rod/cast) of a group: on_true is the cast model, or
   the normal model when the group has no cast override *)
RodNodeOf(c) ==
    RodCondition(Last(NormalOf(c)).model,
                 IF CastOf(c) # <<>> THEN Last(CastOf(c)).model ELSE Last(NormalOf(c)).model)

ItemModelDone == pc = "item_model"

(* C7: in the conversion of a FishingRod document every group with a normal
   (non-cast) override yields exactly one condition(fishing_rod/cast) node
   with on_false the normal model and on_true the cast model, or the normal
   model when the group has no cast override, and a group without a normal
   override yields nothing: as the in-place entry of its threshold and as
   an ItemModel file. *)
C7_RodCastOrNormal ==
    /\ (InPlaceDone /\ BuiltBy("fishing_rod")) =>
        \A c \in InputCmds :
            EntriesAt(c) = IF NormalOf(c) # <<>> THEN <<Entry(c, RodNodeOf(c))>> ELSE <<>>
    /\ (ItemModelDone /\ is_fishing_rod_model(doc)) =>
        /\ \A c \in InputCmds :
            NormalOf(c) # <<>> => \E f \in DOMAIN files : files[f].model = RodNodeOf(c)
        /\ \A f \in DOMAIN files :
            \E c \in InputCmds : NormalOf(c) # <<>> /\ files[f].model = RodNodeOf(c)

(* ------------------------------- C8 ----------------------------------- *)

(* the base overrides of a shield group: no blocking key *)
ShieldBaseOf(c) == SelectSeq(GroupOf(c), LAMBDA o : "blocking" \notin DOMAIN o.predicate)

(* the blocking overrides of a shield group: blocking = 1 *)
BlockingOf(c) == SelectSeq(GroupOf(c), LAMBDA o : Get(o.predicate, "blocking", 0) = 1)

ShieldNodeOf(c) ==
    [type |-> "minecraft:condition",
     property |-> "minecraft:using_item",
     on_false |-> ModelNode("minecraft:model", Last(ShieldBaseOf(c)).model),
     on_true |-> ModelNode("minecraft:model",
                     IF BlockingOf(c) # <<>> THEN Last(BlockingOf(c)).model
                     ELSE Last(ShieldBaseOf(c)).model)]

(* C8: in the in-place output of a Shield document every group with a base
   override (no blocking key) has exactly one entry, whose threshold is the
   group's custom_model_data value and whose model is condition(using_item)
   with on_false the base model and on_true the model of the group's
   blocking override, or the base model when it has none; a group without
   a base override has no entry. *)
C8_ShieldEntry ==
    (InPlaceDone /\ BuiltBy("shield")) =>
        \A c \in InputCmds :
            EntriesAt(c) = IF ShieldBaseOf(c) # <<>> THEN <<Entry(c, ShieldNodeOf(c))>> ELSE <<>>

(* a shield output with a group that has a base and a blocking override of
   different models: its entry blocks with the blocking model *)
C8_Witness ==
    /\ InPlaceDone
    /\ BuiltBy("shield")
    /\ \E c \in InputCmds :
        /\ ShieldBaseOf(c) # <<>>
        /\ BlockingOf(c) # <<>>
        /\ Len(EntriesAt(c)) = 1
        /\ EntriesAt(c)[1].model.on_true # EntriesAt(c)[1].model.on_false

(* ------------------------------- C9 ----------------------------------- *)

(* the overrides of a group without any special predicate key *)
PlainBaseOf(c) == SelectSeq(GroupOf(c), IsBaseOverride)

(* the base model an entry uses, by the shape of the entry *)
EntryBaseModel(entry) ==
    LET m == entry.model IN
    IF m.type = "minecraft:condition" THEN RestModel(entry)
    ELSE IF m.type = "minecraft:select" THEN m.fallback.base
    ELSE IF m.type = "range_dispatch" THEN m.fallback.model
    ELSE m.model

(* C9: an in-place range_dispatch(custom_model_data) output has at most one
   top-level entry for each custom_model_data value, and a value with
   several overrides without special predicate key has an entry that uses
   the model of the last of them. *)
C9_OneEntryPerCmd ==
    InPlaceDone =>
        \A c \in InputCmds :
            /\ Len(EntriesAt(c)) <= 1
            /\ Len(PlainBaseOf(c)) >= 2 =>
                /\ EntriesAt(c) # <<>>
                /\ EntryBaseModel(EntriesAt(c)[1]) = Last(PlainBaseOf(c)).model

(* ------------------------------- C10 ---------------------------------- *)

(* every model path that occurs in an output node *)
RECURSIVE PathsIn(_)
PathsIn(node) ==
    IF node.type \in {"model", "minecraft:model"} THEN {node.model}
    ELSE IF node.type = "minecraft:special" THEN {node.base}
    ELSE IF node.type = "minecraft:condition"
    THEN PathsIn(node.on_false) \cup PathsIn(node.on_true)
    ELSE IF node.type = "minecraft:select"
    THEN PathsIn(node.fallback)
            \cup UNION {PathsIn(node.cases[i].model) : i \in 1..Len(node.cases)}
    ELSE PathsIn(node.fallback)
            \cup UNION {PathsIn(node.entries[i].model) : i \in 1..Len(node.entries)}

ModelsOfGroup(c) == {GroupOf(c)[i].model : i \in 1..Len(GroupOf(c))}

(* the models of the overrides that have a predicate without custom_model_data *)
OwnStateModels ==
    {doc.overrides[i].model : i \in {j \in 1..Len(doc.overrides) :
        /\ "predicate" \in DOMAIN doc.overrides[j]
        /\ "custom_model_data" \notin DOMAIN doc.overrides[j].predicate}}

(* the document's own base path, which the builders use as a default *)
DefaultPaths == {BasePath(doc), MixedBasePath(doc)}

(* C10: in an in-place range_dispatch(custom_model_data) output every model
   path of the entry with threshold c is the model of an override of the
   group c or the document's own base path; in ItemModel mode every model
   path of an emitted file is the model of an override that has
   custom_model_data.  No entry and no file holds the model of an override
   without custom_model_data. *)
C10_OwnStatesStayOut ==
    /\ InPlaceDone =>
        \A i \in 1..Len(TopEntries) :
            PathsIn(TopEntries[i].model)
                \subseteq ModelsOfGroup(TopEntries[i].threshold) \cup DefaultPaths
    /\ ItemModelDone =>
        \A f \in DOMAIN files :
            /\ PathsIn(files[f].model) \subseteq UNION {ModelsOfGroup(c) : c \in InputCmds}
            /\ PathsIn(files[f].model) \cap OwnStateModels = {}

(* a shield converted in place that has an override of its own blocking
   state next to a custom_model_data group: the group's entry is there *)
C10_Witness ==
    /\ InPlaceDone
    /\ BuiltBy("shield")
    /\ OwnStateModels # {}
    /\ TopEntries # <<>>

(* ------------------------------- C11 ---------------------------------- *)

Processed == pc = "processed"

(* C11, as stated: in process_directory, whatever the mode, and in
   process_directory_item_model a JSON document is converted exactly when
   at least one of its overrides has a custom_model_data predicate, and is
   otherwise left as the copied input. *)
C11_ConvertIffCmd ==
    Processed =>
        /\ pipe.should_convert <=> HasCustomModelData(doc)
        /\ ~HasCustomModelData(doc) => pipe.file = "copied input"

(* C11, amended: the decision is the custom_model_data test in mode "cmd"
   of process_directory and in process_directory_item_model; in mode
   "damage" it is is_damage_model (some override has damaged and damage
   and no custom_model_data); in mode "item_model" of process_directory no
   document is converted.  A document the decision rejects is left as the
   copied input, and one it accepts is overwritten by its conversion
   (process_directory) or replaced by the files of its groups
   (process_directory_item_model). *)
C11_DecisionByMode ==
    Processed =>
        /\ pipe.mode \in {"cmd", "item"} => (pipe.should_convert <=> HasCustomModelData(doc))
        /\ pipe.mode = "damage" => (pipe.should_convert <=> is_damage_model(doc))
        /\ pipe.mode = "item_model" => ~pipe.should_convert
        /\ ~pipe.should_convert => (pipe.file = "copied input" /\ pipe.status = "copied")
        /\ pipe.should_convert =>
            /\ pipe.status = "converted"
            /\ pipe.file = IF pipe.mode = "item" THEN "removed" ELSE "converted"

(* damage mode converts a document none of whose overrides has custom_model_data *)
C11_Witness ==
    /\ Processed
    /\ pipe.mode = "damage"
    /\ pipe.status = "converted"
    /\ ~HasCustomModelData(doc)
    /\ out.exc = "none"
    /\ out.json.model.property = "damage"

(* ------------------------------- C12 ---------------------------------- *)

(* the overrides a DamageOnly output is made of: damaged, damage, no custom_model_data *)
DamageOnlyOverrides ==
    SelectSeq(doc.overrides, LAMBDA o :
        /\ "predicate" \in DOMAIN o
        /\ {"damaged", "damage"} \subseteq DOMAIN o.predicate
        /\ "custom_model_data" \notin DOMAIN o.predicate)

(* a model path with minecraft: put before it when it carries no namespace *)
WithNamespace(m) ==
    IF \E i \in 1..Len(m) : m[i] = ":" THEN m ELSE <<"minecraft", ":">> \o m

(* the entry a damage override stands for *)
DamageEntryOf(o) == Entry(o.predicate.damage, ModelNode("model", WithNamespace(o.model)))

Ascending(entries) ==
    \A i \in 1..Len(entries) : \A j \in i..Len(entries) :
        entries[i].threshold <= entries[j].threshold

Occurrences(s, e) == Cardinality({i \in 1..Len(s) : s[i] = e})

(* range_dispatch(damage) whose entries are the entries of the overrides,
   one entry each, in ascending order *)
IsDispatchOf(node, overrides, EntryOf(_)) ==
    /\ node.type = "range_dispatch"
    /\ node.property = "damage"
    /\ Len(node.entries) = Len(overrides)
    /\ Ascending(node.entries)
    /\ \A i \in 1..Len(overrides) :
        Occurrences(node.entries, EntryOf(overrides[i]))
            = Occurrences(MapSeq(overrides, EntryOf), EntryOf(overrides[i]))

IsDamageDispatchOf(node, overrides) == IsDispatchOf(node, overrides, DamageEntryOf)

(* C12, as stated: the in-place output of a DamageOnly document is
   range_dispatch(damage) whose fallback model is textures.layer0, else
   parent, and whose entries are exactly the overrides with damaged and
   damage and no custom_model_data, one entry each, in ascending order of
   damage, each model path given the namespace minecraft: when it has none. *)
C12_DamageOnlyOutput ==
    (InPlaceDone /\ IsDamageOnly) =>
        /\ IsDamageDispatchOf(out.json.model, DamageOnlyOverrides)
        /\ out.json.model.fallback = ModelNode("model", OrElse(doc.layer0, doc.parent))

IsPotionFile == Lower(Basename(doc.path)) \in potion_files

(* the base path of a potion file: by its overlay texture, never layer0 itself *)
PotionFileBase ==
    IF doc.layer0 = <<"item", "/", "splash_potion_overlay">>
    THEN <<"minecraft", ":", "item", "/", "splash_potion">>
    ELSE IF doc.layer0 = <<"item", "/", "lingering_potion_overlay">>
    THEN <<"minecraft", ":", "item", "/", "lingering_potion">>
    ELSE <<"minecraft", ":", "item", "/", "potion">>

(* C12, amended: the same output, with the fallback model being
   textures.layer0, else parent, for every file but potion.json,
   splash_potion.json and lingering_potion.json; for those it is the potion
   base path (minecraft:item/splash_potion or lingering_potion by the
   overlay texture, else minecraft:item/potion). *)
C12_DamageOnlyPotionBase ==
    (InPlaceDone /\ IsDamageOnly) =>
        /\ IsDamageDispatchOf(out.json.model, DamageOnlyOverrides)
        /\ out.json.model.fallback =
                ModelNode("model", IF IsPotionFile THEN PotionFileBase
                                   ELSE OrElse(doc.layer0, doc.parent))

(* two damage overrides given in descending order, one of them without a
   namespace, next to an override with custom_model_data *)
C12_Witness ==
    /\ InPlaceDone
    /\ IsDamageOnly
    /\ Len(DamageOnlyOverrides) = 2
    /\ DamageOnlyOverrides[1].predicate.damage > DamageOnlyOverrides[2].predicate.damage
    /\ \E i \in 1..2 : DamageOnlyOverrides[i].model = OwnModel
    /\ out.json.model.entries[1].threshold < out.json.model.entries[2].threshold

(* ------------------------------- C13 ---------------------------------- *)

HasDamageState(o) == {"damaged", "damage"} \subseteq DOMAIN o.predicate

(* the damage states of a group, and its other overrides *)
GroupDamageOf(c) == SelectSeq(GroupOf(c), HasDamageState)

GroupPlainOf(c) == SelectSeq(GroupOf(c), LAMBDA o : ~HasDamageState(o))

ThresholdsInOrder == [i \in 1..Len(TopEntries) |-> TopEntries[i].threshold]

(* C13, as stated: the in-place output of a MixedCmdDamage document is
   range_dispatch(custom_model_data) with one entry per custom_model_data
   value in ascending order, and the model of each entry is what the
   DamageOnly builder makes of the group: range_dispatch(damage) over the
   group's damage states in ascending order, with minecraft: put before
   every model path that has no namespace. *)
C13_NestedDamageOnly ==
    (InPlaceDone /\ IsMixed) =>
        /\ out.json.model.type = "range_dispatch"
        /\ out.json.model.property = "custom_model_data"
        /\ ThresholdsInOrder = SortedKeys(InputCmds)
        /\ \A i \in 1..Len(TopEntries) :
            IsDamageDispatchOf(TopEntries[i].model, GroupDamageOf(TopEntries[i].threshold))

(* the entry of a damage state with the model path as the override gives it *)
RawDamageEntryOf(o) == Entry(o.predicate.damage, ModelNode("model", o.model))

(* the document's base path as the mixed builder puts it in a fallback *)
MixedDocumentBase ==
    LET p == OrElse(doc.layer0, doc.parent)
        bare == \A i \in 1..Len(p) : p[i] # ":"
    IN IF bare /\ Len(p) >= 2 /\ SubSeq(p, 1, 2) = <<"item", "/">> THEN <<"minecraft", ":">> \o p
       ELSE IF bare THEN <<"minecraft", ":", "item", "/">> \o p
       ELSE p

(* C13, amended: the same outer range_dispatch(custom_model_data); the
   model of each entry is range_dispatch(damage) over the group's damage
   states in ascending order with every model path exactly as the override
   gives it (no namespace is added, unlike the DamageOnly builder), and its
   fallback is the model of the group's last override without damage
   state, else the document's base path. *)
C13_NestedRawPaths ==
    (InPlaceDone /\ IsMixed) =>
        /\ out.json.model.type = "range_dispatch"
        /\ out.json.model.property = "custom_model_data"
        /\ ThresholdsInOrder = SortedKeys(InputCmds)
        /\ \A i \in 1..Len(TopEntries) :
            LET c == TopEntries[i].threshold IN
            /\ IsDispatchOf(TopEntries[i].model, GroupDamageOf(c), RawDamageEntryOf)
            /\ TopEntries[i].model.fallback =
                    ModelNode("model", IF GroupPlainOf(c) # <<>> THEN Last(GroupPlainOf(c)).model
                                       ELSE MixedDocumentBase)

(* a group with two damage states given in descending order, the one at
   0.5 with a model path that has no namespace: it is kept as it is *)
C13_Witness ==
    /\ InPlaceDone
    /\ IsMixed
    /\ Len(TopEntries) = 1
    /\ Len(GroupDamageOf(1)) = 2
    /\ GroupDamageOf(1)[1].predicate.damage > GroupDamageOf(1)[2].predicate.damage
    /\ TopEntries[1].model.entries[2] = Entry(50, ModelNode("model", BareModel))

(* ------------------------------- C14 ---------------------------------- *)

(* the base overrides of a group in ItemModel mode: no damage state, no
   pulling, no charged key and no blocking = 1 *)
ItemBaseOf(c) ==
    SelectSeq(GroupOf(c), LAMBDA o :
        /\ ~HasDamageState(o)
        /\ DOMAIN o.predicate \cap {"pulling", "charged"} = {}
        /\ Get(o.predicate, "blocking", 0) # 1)

(* the file of a base model: namespace:path is namespace/path.json *)
FileOfBase(m) ==
    IF \E i \in 1..Len(m) : m[i] = ":"
    THEN LET k == CHOOSE i \in 1..Len(m) : m[i] = ":" /\ \A j \in 1..(i - 1) : m[j] # ":"
         IN SubSeq(m, 1, k - 1) \o <<"/">> \o SubSeq(m, k + 1, Len(m)) \o <<".json">>
    ELSE m \o <<".json">>

(* no other group of the document writes the file of this group *)
OwnsItsFile(c) ==
    \A c2 \in InputCmds \ {c} :
        ItemBaseOf(c2) # <<>> => Last(ItemBaseOf(c2)).model # Last(ItemBaseOf(c)).model

(* C14: in ItemModel mode, for a document in which some override has
   custom_model_data with damaged and damage, the file of every group that
   has damage states is range_dispatch(damage) with the group's base model
   as fallback and the group's damage states in ascending order as
   entries, whatever the file name and the text of the base model path. *)
C14_ItemModelDamageFirst ==
    (ItemModelDone /\ IsMixed /\ ~is_fishing_rod_model(doc)) =>
        \A c \in InputCmds :
            (GroupDamageOf(c) # <<>> /\ ItemBaseOf(c) # <<>> /\ OwnsItsFile(c)) =>
                LET f == FileOfBase(Last(ItemBaseOf(c)).model) IN
                /\ f \in DOMAIN files
                /\ IsDispatchOf(files[f].model, GroupDamageOf(c), RawDamageEntryOf)
                /\ files[f].model.fallback = ModelNode("model", Last(ItemBaseOf(c)).model)

(* ------------------------------- C15 ---------------------------------- *)

(* the base model paths of the document's groups: the normal model of a
   fishing rod group, the base model of any other group *)
BaseModelPaths ==
    IF is_fishing_rod_model(doc)
    THEN {Last(NormalOf(c)).model : c \in {x \in InputCmds : NormalOf(x) # <<>>}}
    ELSE {Last(ItemBaseOf(c)).model : c \in {x \in InputCmds : ItemBaseOf(x) # <<>>}}

(* C15: ItemModel conversion emits one file for each distinct base model
   path of the document's groups: as many files as distinct base model
   paths, the file of namespace:path being namespace/path.json and the
   file of a base without namespace being base.json under the output
   directory. *)
C15_OneFilePerBase ==
    ItemModelDone =>
        /\ Cardinality(DOMAIN files) = Cardinality(BaseModelPaths)
        /\ DOMAIN files = {FileOfBase(m) : m \in BaseModelPaths}

(* ------------------------------- C16 ---------------------------------- *)

AllKeys == UNION {DOMAIN PredicateOf(Overrides(doc)[i]) : i \in 1..Len(Overrides(doc))}

(* the model path of each group: its last override *)
ModelsOfGroupLast == {Last(GroupOf(c)).model : c \in InputCmds}

(* Plain by the file path and the predicate keys of the document *)
IsPlainDocument ==
    /\ ArchetypeByOrder(doc) = "plain"
    /\ AllKeys \cap SpecialKeys = {}

(* C16: in ItemModel mode every group of a Plain document (file name in no
   table, no pulling, charged, blocking, cast or damage key) yields a file,
   and every emitted file is the direct node {type: model, model: path} of
   the group's model path, whatever the text of that path. *)
C16_PlainDirectNode ==
    (ItemModelDone /\ IsPlainDocument) =>
        /\ \A c \in InputCmds : FileOfBase(Last(GroupOf(c)).model) \in DOMAIN files
        /\ \A m \in ModelsOfGroupLast :
            FileOfBase(m) \in DOMAIN files => files[FileOfBase(m)].model = ModelNode("model", m)

(* ------------------------------- C17 ---------------------------------- *)

(* C17: the base path normalisation of convert_json_format (the
   crossbow_standby alias, then the namespace prefix) is idempotent:
   normalising the normalised path of a texture returns it unchanged, for
   bare, item/, minecraft:, minecraft:item/ and other-namespace paths and
   for every form of crossbow_standby. *)
C17_NormalizeIdempotent ==
    pc = "renormalized" => out.json.model.fallback.model = doc.layer0

(* ------------------------------- C18 ---------------------------------- *)

HasNamespace(path) == \E i \in 1..Len(path) : path[i] = ":"

(* minecraft: paths unchanged, item/ paths with minecraft:, others with minecraft:item/ *)
FullyNamespaced(path) ==
    IF Len(path) >= 2 /\ SubSeq(path, 1, 2) = <<"minecraft", ":">> THEN path
    ELSE IF Len(path) >= 2 /\ SubSeq(path, 1, 2) = <<"item", "/">>
    THEN <<"minecraft", ":">> \o path
    ELSE <<"minecraft", ":", "item", "/">> \o path

IsPassedParent(path) == doc.layer0 = <<>> /\ path = doc.parent

(* C18: every base path in the fallback of an in-place output has a
   namespace, a passed-through parent reference alone excepted, and the
   fallback of a plain document with a textures.layer0 is that texture
   unchanged when it starts with minecraft:, with minecraft: before it
   when it starts with item/, and with minecraft:item/ before it otherwise. *)
C18_FallbackNamespaced ==
    (InPlaceDone /\ ~IsMixed /\ ~IsDamageOnly) =>
        /\ \A path \in PathsIn(out.json.model.fallback) :
            HasNamespace(path) \/ IsPassedParent(path)
        /\ (FallbackKind(doc) = "plain" /\ doc.layer0 # <<>>) =>
            out.json.model.fallback.model = FullyNamespaced(doc.layer0)

(* ------------------------------- C19 ---------------------------------- *)

(* C19: the in-place output of a Plain document without overrides key is
   range_dispatch(custom_model_data) with no entries, whose fallback model
   is the normalised textures.layer0 when the document has one and the
   parent otherwise. *)
C19_PlainPassthrough ==
    (InPlaceDone /\ ~doc.hasOverrides /\ ArchetypeByOrder(doc) = "plain") =>
        /\ out.json.model.type = "range_dispatch"
        /\ out.json.model.property = "custom_model_data"
        /\ out.json.model.entries = <<>>
        /\ out.json.model.fallback =
                ModelNode("model", IF doc.layer0 # <<>> THEN FullyNamespaced(doc.layer0)
                                   ELSE doc.parent)

(* ------------------------------- C20 ---------------------------------- *)

IsChestFile ==
    Lower(Basename(doc.path)) \in {<<"chest", ".json">>, <<"trapped_chest", ".json">>}

SpecialChest(base, texture) ==
    [type |-> "minecraft:special", base |-> base,
     model |-> [type |-> "minecraft:chest", texture |-> texture]]

(* select(local_time) with the one christmas case, over the override's own model *)
ChristmasSelect(model_path) ==
    [type |-> "minecraft:select",
     property |-> "minecraft:local_time",
     pattern |-> "MM-dd",
     cases |-> <<[model |-> SpecialChest(model_path, "minecraft:christmas"),
                  when |-> <<"12-24", "12-25", "12-26">>]>>,
     fallback |-> SpecialChest(model_path, "minecraft:normal")]

ChristmasEntryOf(o) == Entry(o.predicate.custom_model_data, ChristmasSelect(o.model))

(* C20, as stated: in the in-place output of every document named
   chest.json or trapped_chest.json each override with custom_model_data,
   whatever its value, has an entry whose model is select(local_time,
   MM-dd) with the single case 12-24, 12-25, 12-26 -> special(chest,
   christmas) and the fallback special(chest, normal), both over the
   override's own model. *)
C20_ChestFileEntries ==
    (InPlaceDone /\ IsChestFile) =>
        \A i \in 1..Len(CmdOverrides(doc)) :
            \E j \in 1..Len(TopEntries) : TopEntries[j] = ChristmasEntryOf(CmdOverrides(doc)[i])

(* C20, amended: the same for every such document that is neither
   MixedCmdDamage nor DamageOnly, where moreover the entries are exactly
   these, one per override with custom_model_data, in the order of the
   overrides; a chest document with damaged and damage overrides gets the
   damage output and no such entry. *)
C20_ChestArchetypeEntries ==
    /\ (InPlaceDone /\ IsChestFile /\ ~IsMixed /\ ~IsDamageOnly) =>
            TopEntries = MapSeq(CmdOverrides(doc), ChristmasEntryOf)
    /\ (InPlaceDone /\ IsChestFile /\ (IsMixed \/ IsDamageOnly)) =>
            \A j \in 1..Len(TopEntries) : TopEntries[j].model.type # "minecraft:select"

(* trapped_chest.json with two overrides of different values and models:
   two entries, each over its own model *)
C20_Witness ==
    /\ InPlaceDone
    /\ Lower(Basename(doc.path)) = <<"trapped_chest", ".json">>
    /\ Len(TopEntries) = 2
    /\ TopEntries[1].threshold > TopEntries[2].threshold
    /\ TopEntries[1].model.fallback.base # TopEntries[2].model.fallback.base
    /\ TopEntries[1].model.cases[1].model.base = doc.overrides[1].model

(* ------------------------------- C21 ---------------------------------- *)

(* the fallback chain reaches its potion branch: the file is one of the three
   potion files, neither damage builder returned before, and the shield
   test, which the chain makes first, does not take the document *)
ConvertedAsPotion ==
    /\ InPlaceDone
    /\ IsPotionFile
    /\ ~IsMixed
    /\ ~IsDamageOnly
    /\ ~is_shield_model(doc)

(* C21: for potion.json, splash_potion.json and lingering_potion.json
   converted as a potion, the in-place fallback is a model node that carries
   tints [{type: minecraft:potion, default: -13083194}], the same for the
   three files, whatever the parent and the overrides are. *)
C21_PotionTint ==
    ConvertedAsPotion =>
        LET fallback == out.json.model.fallback IN
        /\ DOMAIN fallback = {"type", "model", "tints"}
        /\ fallback.type = "model"
        /\ fallback.tints = <<[type |-> "minecraft:potion", default |-> 0 - 13083194]>>

(* lingering_potion.json with a parent and two entries *)
C21_Witness ==
    /\ ConvertedAsPotion
    /\ Lower(Basename(doc.path)) = Json(<<"lingering_potion">>)
    /\ doc.parent # <<>>
    /\ Len(TopEntries) = 2
    /\ "tints" \in DOMAIN out.json.model.fallback

(* ------------------------------- C22 ---------------------------------- *)

(* the kind each head and skull file name stands for *)
HeadKinds ==
    (<<"player_head">> :> "player") @@ (<<"piglin_head">> :> "piglin")
    @@ (<<"zombie_head">> :> "zombie") @@ (<<"creeper_head">> :> "creeper")
    @@ (<<"dragon_head">> :> "dragon")
    @@ (<<"wither_skeleton_skull">> :> "wither_skeleton")
    @@ (<<"skeleton_skull">> :> "skeleton")

IsHeadFile == \E stem \in DOMAIN HeadKinds : Lower(Basename(doc.path)) = Json(stem)

HeadKindOfFile ==
    HeadKinds[CHOOSE stem \in DOMAIN HeadKinds : Lower(Basename(doc.path)) = Json(stem)]

PlainEntryOf(o) == Entry(o.predicate.custom_model_data, ModelNode("model", o.model))

(* C22: for a document whose basename is one of the seven head and skull
   file names the in-place fallback is special(head) with the kind mapped
   from the file name, and every override with custom_model_data yields an
   entry that is a plain model node with the override's model and threshold
   equal to its custom_model_data, without any nesting. *)
C22_HeadOutput ==
    (InPlaceDone /\ IsHeadFile) =>
        /\ out.json.model.property = "custom_model_data"
        /\ out.json.model.fallback.type = "minecraft:special"
        /\ out.json.model.fallback.model = [type |-> "minecraft:head", kind |-> HeadKindOfFile]
        /\ \A i \in 1..Len(CmdOverrides(doc)) :
                \E j \in 1..Len(TopEntries) : TopEntries[j] = PlainEntryOf(CmdOverrides(doc)[i])

(* ------------------------------- C23 ---------------------------------- *)

(* an emitted document has the source's display, or none when the source has none *)
DisplayCopied(json) ==
    IF doc.hasDisplay
    THEN "display" \in DOMAIN json /\ json.display = doc.display
    ELSE "display" \notin DOMAIN json

(* C23: every emitted document, the in-place output of every archetype, of
   DamageOnly and of MixedCmdDamage, and each file written in ItemModel mode,
   has a top-level display equal to the source's display when the source has
   one, and no display key when it has none. *)
C23_DisplayCopied ==
    /\ InPlaceDone => DisplayCopied(out.json)
    /\ ItemModelDone => \A f \in DOMAIN files : DisplayCopied(files[f])

(* a MixedCmdDamage document whose display is the empty dict *)
C23_Witness ==
    /\ InPlaceDone
    /\ IsMixed
    /\ doc.hasDisplay
    /\ doc.display = "{}"
    /\ out.json.display = "{}"

(* ------------------------------- C24 ---------------------------------- *)

RunReturned == pc = "returned"

FailedFiles == {run.errors[k] : k \in 1..Len(run.errors)}

(* C24: when reading or converting one JSON file fails in process_directory
   the run does not abort: every JSON file after it is still taken by the
   loop, and the output path of the failed file holds the unmodified copy
   of the input file. *)
C24_FailureLeavesCopy ==
    /\ (pc \in {"directory", "returned"} /\ run.mode \in Modes) =>
            \A i \in FailedFiles : run.output[i].kind = "copied input"
    /\ (RunReturned /\ run.mode \in Modes) =>
            \A i \in 1..Len(run.input) : run.handled[i] = 1

(* a file that is no JSON and a file whose conversion raises, followed by a
   file that is converted *)
C24_Witness ==
    /\ RunReturned
    /\ run.mode = "cmd"
    /\ Len(run.input) = 3
    /\ ~run.input[1].valid
    /\ run.errors = <<1, 2>>
    /\ run.input[2].valid
    /\ run.output[3].kind = "converted"

(* ------------------------------- C25 ---------------------------------- *)

(* C25: convert_json_format returns a converted document for every
   well-formed input document and for both values of is_item_model; called
   with is_item_model = True on a document whose overrides carry
   custom_model_data it returns the converted document and does not raise. *)
C25_ReturnsForBothFlags ==
    /\ (Processed /\ pipe.mode \in Modes /\ pipe.should_convert) => out.exc = "none"
    /\ pc = "item_model_flag" => out.exc = "none"

(* ------------------------------- C26 ---------------------------------- *)

(* C26: in process_directory_item_model, after a models/item file with
   custom_model_data overrides has been converted, every file that
   convert_item_model_format wrote for it is still in the items directory
   with the converted content: removing the moved original removes no
   converted output, whatever the source file name and the base model
   paths are. *)
C26_OutputsSurvive ==
    (Processed /\ pipe.mode = "item" /\ pipe.should_convert) =>
        \A f \in DOMAIN convert_item_model_format(doc) :
            /\ f \in DOMAIN files
            /\ files[f] = convert_item_model_format(doc)[f]

(* ------------------------------- C27 ---------------------------------- *)

(* the threads that have not run their last step *)
RunningWorkers == {w \in DOMAIN gui.workers : gui.workers[w].at # "ended"}

(* C27: at most one background worker (process_files_async or
   convert_files) is executing at any moment: a new thread is started only
   when no earlier one is still running any of its steps, the final removal
   of temp_output in convert_files included. *)
C27_OneWorker == Cardinality(RunningWorkers) <= 1

(* ------------------------------- C28 ---------------------------------- *)

(* the threads that are reading or writing under temp_dir *)
WorkersInTempDir ==
    {w \in DOMAIN gui.workers : gui.workers[w].at \in {"try", "scheduled"}}

(* C28: temp_dir is never deleted while a background worker is still
   reading or writing in it: on_closing removes it only when no
   process_files_async or convert_files worker is running. *)
C28_TempDirKept == gui.temp_dir = "removed" => WorkersInTempDir = {}

(* ------------------------------- C29 ---------------------------------- *)

(* the threads that have reset processing and scheduled set_buttons_state *)
UnlockedWorkers ==
    {w \in DOMAIN gui.workers : gui.workers[w].at \in {"scheduled", "ended"}}

(* the threads that have run self.processing = False *)
ResetWorkers ==
    {w \in DOMAIN gui.workers : gui.workers[w].at \in {"reset", "scheduled", "ended"}}

(* C29: every started worker eventually resets processing to False,
   whether its work returns or raises, and, in a window that is still
   open, schedules the re-enabling of the buttons; so an open window
   never stays locked: disabled buttons are enabled again with processing
   False, and a later choose_folder, choose_zip or start_conversion is
   accepted. *)
C29_WorkerUnlocks ==
    /\ \A w \in 1..MaxWorkers :
            (w \in DOMAIN gui.workers) ~> (w \in ResetWorkers)
    /\ \A w \in 1..MaxWorkers :
            (w \in DOMAIN gui.workers) ~> (gui.closed \/ w \in UnlockedWorkers)
    /\ (gui.buttons = "disabled" \/ gui.processing)
            ~> (gui.closed \/ (gui.buttons = "enabled" /\ ~gui.processing))

(* a worker whose work raised has ended, and the open window takes commands again *)
C29_Witness ==
    /\ ~gui.closed
    /\ \E w \in DOMAIN gui.workers : gui.workers[w].raised /\ gui.workers[w].at = "ended"
    /\ ~gui.processing
    /\ gui.buttons = "enabled"

(* ------------------------------- C30 ---------------------------------- *)

(* the files the loop has taken once, in the order of the list *)
TakenOnce ==
    \A i \in 1..Len(run.input) : run.handled[i] = (IF i <= run.next THEN 1 ELSE 0)

(* C30: process_directory and process_directory_item_model take every
   selected JSON file exactly once and always finish: the progress counter
   advances by exactly one per file, whether the file is converted, copied
   or fails, the run returns, and it returns with the completed count
   equal to the total and with no file taken twice. *)
C30_EveryFileOnce ==
    /\ [](pc \in {"directory", "returned"} =>
            /\ TakenOnce
            /\ run.completed = run.next
            /\ run.total = Len(run.input))
    /\ [](RunReturned => run.completed = run.total)
    /\ (pc = "directory") ~> RunReturned

(* a returned run of each function over the greatest directory in which a
   file failed, a file was copied and a file was converted *)
C30_Witness ==
    /\ RunReturned
    /\ run.total = MaxFiles
    /\ run.completed = MaxFiles
    /\ Len(run.errors) = 1
    /\ \E i, j \in 1..Len(run.processed_files) :
            /\ run.processed_files[i].status = "copied"
            /\ run.processed_files[j].status = "converted"

=============================================================================
